---- MODULE Spec2Model ----
(***************************************************************************)
(* tidy_table: the cross-entity validation pass (POST /api/validate) and   *)
(* the structured-output retry loops of the three AI provider paths        *)
(* (ollama, gemini, openai).                                               *)
(***************************************************************************)
EXTENDS Integers, Sequences, FiniteSets, TLC

VARIABLES
    clients,      \* request body: the clients collection
    workers,      \* request body: the workers collection
    tasks,        \* request body: the tasks collection
    vpc,          \* position of the validate handler: "request" | "responded"
    status,       \* HTTP status of the validate response (0 before it is sent)
    errors,       \* the errors list of the validate response
    served,       \* the validate calls answered so far: snapshot, status and list
    provider,     \* config.provider of the generateStructuredOutput invocation
    mpc,          \* its position: "idle" | "call" | "wait" | "sleep" | "returned" | "thrown"
    attempt,      \* ollama: the loop variable attempt
    retryCount,   \* gemini: retryCount
    lastError,    \* lastError of the ollama and gemini loops
    calls,        \* provider calls made so far
    outcomes,     \* what the provider answered to each call, in call order
    waits,        \* waits (setTimeout sleeps) completed or begun so far
    delay,        \* milliseconds of the wait begun last (0: none yet)
    result,       \* the values the invocation returned to its caller
    failure,      \* the error the invocation threw to its caller
    generated,    \* cleaning step: the text generateText resolved with (response)
    jsonStr,      \* cleaning step: the string handed to JSON.parse
    inv,          \* concurrent invocations: the local variables of each
    uploadedData,       \* HomePage: the records held (clients, workers, tasks)
    validationErrors,   \* HomePage: the validation findings held
    appliedCorrections, \* AIErrorCorrection: ids of the corrections applied
    appliedChanges,     \* NaturalLanguageModifier: ids of the suggestions applied
    pending,            \* the /api/validate requests sent and not yet answered
    issued,             \* how many /api/validate requests the page has sent
    exportOptions,      \* ExportPanel: the collections ticked for export
    exporting,          \* ExportPanel: an export is in progress
    downloaded,         \* the files the last export handed to the browser
    upload,             \* FileUpload: processing, and the locals of processFiles
    autoFix,            \* AIErrorCorrection: the locals of a running autoFixAll
    applications        \* ids of the corrections whose cell was set, in order

vvars == <<clients, workers, tasks, vpc, status, errors, served>>
mvars == <<provider, mpc, attempt, retryCount, lastError, calls, outcomes, waits, delay,
           result, failure>>
cvars == <<generated, jsonStr>>
\* the variables outside the validate route and the retry loops
uvars == <<uploadedData, validationErrors, appliedCorrections, appliedChanges,
           pending, issued>>
evars == <<exportOptions, exporting, downloaded>>
fvars == <<upload>>
avars == <<autoFix, applications>>
xvars == <<cvars, inv, uvars, evars, fvars, avars>>
vars == <<clients, workers, tasks, vpc, status, errors, served,
          provider, mpc, attempt, retryCount, lastError, calls, outcomes, waits, delay,
          result, failure, generated, jsonStr, inv,
          uploadedData, validationErrors, appliedCorrections, appliedChanges,
          pending, issued, exportOptions, exporting, downloaded,
          upload, autoFix, applications>>

(***************************************************************************)
(* JavaScript values.  Every value has the same four fields so that any    *)
(* two values can be compared: t is the kind, n the number, s the string,  *)
(* a the elements of an array.                                             *)
(***************************************************************************)
Undefined == [t |-> "undefined", n |-> 0, s |-> "", a |-> <<>>]
Null == [t |-> "null", n |-> 0, s |-> "", a |-> <<>>]
NaN == [t |-> "NaN", n |-> 0, s |-> "", a |-> <<>>]
Num(k) == [t |-> "number", n |-> k, s |-> "", a |-> <<>>]
Str(x) == [t |-> "string", n |-> 0, s |-> x, a |-> <<>>]
Arr(q) == [t |-> "array", n |-> 0, s |-> "", a |-> q]

\* a row that is the JSON value null (property access on it throws TypeError)
NullRow == Null

\* row[field]: a key the object does not carry reads as undefined
Get(row, f) == IF f \in DOMAIN row THEN row[f] ELSE Undefined

\* ToBoolean
Truthy(v) ==
    CASE v.t = "undefined" -> FALSE
      [] v.t = "null" -> FALSE
      [] v.t = "NaN" -> FALSE
      [] v.t = "number" -> v.n # 0
      [] v.t = "string" -> v.s # ""
      [] OTHER -> TRUE

\* typeof
TypeOf(v) ==
    CASE v.t = "undefined" -> "undefined"
      [] v.t = "number" -> "number"
      [] v.t = "NaN" -> "number"
      [] v.t = "string" -> "string"
      [] OTHER -> "object"

IsArray(v) == v.t = "array"
IsNaN(v) == v.t = "NaN"

\* the decimal numerals String -> Number conversion knows in this model
NumeralRange == 0 .. 9

\* Number(string): "" is 0, a decimal numeral is its number, anything else NaN
StrToNumber(x) ==
    IF x = "" THEN Num(0)
    ELSE IF \E k \in NumeralRange : ToString(k) = x
         THEN Num(CHOOSE k \in NumeralRange : ToString(k) = x)
         ELSE NaN

RECURSIVE JoinWith(_, _)
RECURSIVE ToStr(_)
\* String(v), as a template literal or Array.prototype.join converts a value
ToStr(v) ==
    CASE v.t = "undefined" -> "undefined"
      [] v.t = "null" -> "null"
      [] v.t = "NaN" -> "NaN"
      [] v.t = "number" -> ToString(v.n)
      [] v.t = "string" -> v.s
      [] OTHER -> JoinWith(v.a, ",")

\* one element inside join: null and undefined become the empty string
JoinElem(v) == IF v.t \in {"undefined", "null"} THEN "" ELSE ToStr(v)

\* Array.prototype.join(sep) on a sequence of JavaScript values
JoinWith(q, sep) ==
    IF q = <<>> THEN ""
    ELSE IF Len(q) = 1 THEN JoinElem(q[1])
    ELSE JoinElem(q[1]) \o sep \o JoinWith(Tail(q), sep)

\* Number(v)
ToNumber(v) ==
    CASE v.t = "undefined" -> NaN
      [] v.t = "null" -> Num(0)
      [] v.t = "NaN" -> NaN
      [] v.t = "number" -> v
      [] v.t = "string" -> StrToNumber(v.s)
      [] OTHER -> StrToNumber(JoinWith(v.a, ","))

\* Set.prototype.has / add compare with SameValueZero: primitives by value,
\* arrays by reference (two arrays read from two rows are never the same)
SameValueZero(x, y) == x.t # "array" /\ x = y

\* the texts JSON.parse accepts, among the texts the model uses
ValidJSONTexts == {"{}", "{\"a\":1}", "[]", "1"}
JSONParseThrows(x) == x \notin ValidJSONTexts

RECURSIVE Flat(_)
\* concatenation of a sequence of sequences
Flat(ss) == IF ss = <<>> THEN <<>> ELSE Head(ss) \o Flat(Tail(ss))

\* the strings of a sequence, joined (String[].join)
RECURSIVE JoinStrings(_, _)
JoinStrings(q, sep) ==
    IF q = <<>> THEN ""
    ELSE IF Len(q) = 1 THEN q[1]
    ELSE q[1] \o sep \o JoinStrings(Tail(q), sep)

\* a ValidationError value (app/page.tsx)
ValidationError(id, type, message, severity, entityType, rowIndex, columnName, suggestions) ==
    [id |-> id, type |-> type, message |-> message, severity |-> severity,
     entityType |-> entityType, rowIndex |-> rowIndex, columnName |-> columnName,
     suggestions |-> suggestions]

\* forEach over the rows reads a property of every row: a null row throws
SomeNullRow(data) == \E i \in 1 .. Len(data) : data[i] = NullRow

\* the guard every rule starts with: if (!data || data.length === 0) return.
\* The collections of a request body are arrays here, and an array is truthy.
NoRows(data) == Len(data) = 0

(***************************************************************************)
(* The rule functions.  Each one is the sequence of findings the function  *)
(* pushes, in push order; XThrows says that the function throws instead.   *)
(***************************************************************************)

\* validateRequiredColumns without the data.length === 0 test
validateRequiredColumnsNoLengthTest(data, entityType, requiredColumns) ==
    LET first == IF Len(data) = 0 \/ data[1] = NullRow THEN <<>> ELSE data[1]
        missingColumns == SelectSeq(requiredColumns, LAMBDA col : col \notin DOMAIN first)
    IN IF Len(missingColumns) > 0
       THEN << ValidationError(
                 "missing-columns-" \o entityType,
                 "missingColumns",
                 "Missing required columns: " \o JoinStrings(missingColumns, ", "),
                 "error", entityType, 0, missingColumns[1],
                 << "Add columns: " \o JoinStrings(missingColumns, ", ") >>) >>
       ELSE <<>>

\* 1. validateRequiredColumns
validateRequiredColumns(data, entityType, requiredColumns) ==
    IF NoRows(data) THEN <<>>
    ELSE LET first == IF data[1] = NullRow THEN <<>> ELSE data[1]   \* data[0] || {}
             availableColumns == DOMAIN first
             missingColumns == SelectSeq(requiredColumns, LAMBDA col : col \notin availableColumns)
         IN IF Len(missingColumns) > 0
            THEN << ValidationError(
                      "missing-columns-" \o entityType,
                      "missingColumns",
                      "Missing required columns: " \o JoinStrings(missingColumns, ", "),
                      "error", entityType, 0, missingColumns[1],
                      << "Add columns: " \o JoinStrings(missingColumns, ", ") >>) >>
            ELSE <<>>

\* a finding of validateUniqueIds whose id leaves out the row index
DuplicateIdErrorNoIndex(entityType, idColumn, index, id) ==
    ValidationError(
        "duplicate-id-" \o entityType,
        "duplicateId",
        "Duplicate " \o idColumn \o ": " \o ToStr(id),
        "error", entityType, index, idColumn,
        << "Change " \o idColumn \o " to a unique value" >>)

\* the finding validateUniqueIds pushes for row index (0-based)
DuplicateIdError(entityType, idColumn, index, id) ==
    ValidationError(
        "duplicate-id-" \o entityType \o "-" \o ToString(index),
        "duplicateId",
        "Duplicate " \o idColumn \o ": " \o ToStr(id),
        "error", entityType, index, idColumn,
        << "Change " \o idColumn \o " to a unique value" >>)

RECURSIVE UniqueIdsLoop(_, _, _, _, _)
\* data.forEach of validateUniqueIds from row i on, ids being the Set so far
UniqueIdsLoop(data, entityType, idColumn, i, ids) ==
    IF i > Len(data) THEN <<>>
    ELSE LET id == Get(data[i], idColumn)
         IN IF Truthy(id)
            THEN IF \E x \in ids : SameValueZero(x, id)
                 THEN << DuplicateIdError(entityType, idColumn, i - 1, id) >>
                      \o UniqueIdsLoop(data, entityType, idColumn, i + 1, ids)
                 ELSE UniqueIdsLoop(data, entityType, idColumn, i + 1, ids \cup {id})
            ELSE UniqueIdsLoop(data, entityType, idColumn, i + 1, ids)

RECURSIVE UniqueIdsLoopNoGuard(_, _, _, _, _)
\* the loop without its if (id) test
UniqueIdsLoopNoGuard(data, entityType, idColumn, i, ids) ==
    IF i > Len(data) THEN <<>>
    ELSE LET id == Get(data[i], idColumn)
         IN IF \E x \in ids : SameValueZero(x, id)
            THEN << DuplicateIdError(entityType, idColumn, i - 1, id) >>
                 \o UniqueIdsLoopNoGuard(data, entityType, idColumn, i + 1, ids)
            ELSE UniqueIdsLoopNoGuard(data, entityType, idColumn, i + 1, ids \cup {id})

\* validateUniqueIds that also counts rows without an identifier
validateUniqueIdsNoGuard(data, entityType, idColumn) ==
    IF NoRows(data) THEN <<>> ELSE UniqueIdsLoopNoGuard(data, entityType, idColumn, 1, {})

\* 2. validateUniqueIds
validateUniqueIds(data, entityType, idColumn) ==
    IF NoRows(data) THEN <<>> ELSE UniqueIdsLoop(data, entityType, idColumn, 1, {})

\* the forEach of a rule reads row[field] of every row
RowLoopThrows(data) == ~NoRows(data) /\ SomeNullRow(data)

\* elements rejected after conversion: a numeric element only when
\* Number(item) is NaN
InvalidElementsConverted(value, expectedType) ==
    SelectSeq(value.a, LAMBDA item :
        IF expectedType = "number"
        THEN IsNaN(ToNumber(item))
        ELSE TypeOf(item) # expectedType)

\* the elements validateArrayFields rejects
InvalidElements(value, expectedType) ==
    SelectSeq(value.a, LAMBDA item :
        IF expectedType = "number"
        THEN TypeOf(item) # "number" \/ IsNaN(item)
        ELSE TypeOf(item) # expectedType)

\* what validateArrayFields pushes for one row
ArrayFieldRow(row, index, entityType, fieldName, expectedType) ==
    LET value == Get(row, fieldName)
        idx == ToString(index)
    IN IF value # Undefined /\ value # Null
       THEN IF ~IsArray(value)
            THEN << ValidationError(
                      "malformed-array-" \o entityType \o "-" \o idx \o "-" \o fieldName,
                      "malformedArray",
                      fieldName \o " should be an array",
                      "error", entityType, index, fieldName,
                      << "Convert " \o fieldName \o " to array format" >>) >>
            ELSE LET invalidElements == InvalidElements(value, expectedType)
                 IN IF Len(invalidElements) > 0
                    THEN << ValidationError(
                              "invalid-array-elements-" \o entityType \o "-" \o idx \o "-" \o fieldName,
                              "invalidArrayElements",
                              fieldName \o " contains invalid " \o expectedType \o " values: "
                                  \o JoinWith(invalidElements, ", "),
                              "error", entityType, index, fieldName,
                              << "Ensure all " \o fieldName \o " values are valid "
                                  \o expectedType \o "s" >>) >>
                    ELSE <<>>
       ELSE <<>>

\* 3. validateArrayFields
validateArrayFields(data, entityType, fieldName, expectedType) ==
    IF NoRows(data) THEN <<>>
    ELSE Flat([i \in 1 .. Len(data) |->
                 ArrayFieldRow(data[i], i - 1, entityType, fieldName, expectedType)])

\* validateRange without the conversion: a value that is not of type number
\* is out of range
RangeRowTypedOnly(row, index, entityType, fieldName, min, max) ==
    LET value == Get(row, fieldName)
    IN IF value # Undefined /\ value # Null
          /\ (TypeOf(value) # "number" \/ IsNaN(value) \/ value.n < min \/ value.n > max)
       THEN << ValidationError(
                 "out-of-range-" \o entityType \o "-" \o ToString(index) \o "-" \o fieldName,
                 "outOfRange",
                 fieldName \o " must be between " \o ToString(min) \o " and " \o ToString(max)
                     \o ", got: " \o ToStr(value),
                 "error", entityType, index, fieldName,
                 << "Set " \o fieldName \o " to a value between " \o ToString(min)
                     \o " and " \o ToString(max) >>) >>
       ELSE <<>>

\* what validateRange pushes for one row
RangeRow(row, index, entityType, fieldName, min, max) ==
    LET value == Get(row, fieldName)
        numValue == ToNumber(value)
    IN IF value # Undefined /\ value # Null
          /\ (IsNaN(numValue) \/ numValue.n < min \/ numValue.n > max)
       THEN << ValidationError(
                 "out-of-range-" \o entityType \o "-" \o ToString(index) \o "-" \o fieldName,
                 "outOfRange",
                 fieldName \o " must be between " \o ToString(min) \o " and " \o ToString(max)
                     \o ", got: " \o ToStr(value),
                 "error", entityType, index, fieldName,
                 << "Set " \o fieldName \o " to a value between " \o ToString(min)
                     \o " and " \o ToString(max) >>) >>
       ELSE <<>>

\* 4a. validateRange
validateRange(data, entityType, fieldName, min, max) ==
    IF NoRows(data) THEN <<>>
    ELSE Flat([i \in 1 .. Len(data) |-> RangeRow(data[i], i - 1, entityType, fieldName, min, max)])

\* what validateMinValue pushes for one row
MinValueRow(row, index, entityType, fieldName, min) ==
    LET value == Get(row, fieldName)
        numValue == ToNumber(value)
    IN IF value # Undefined /\ value # Null /\ (IsNaN(numValue) \/ numValue.n < min)
       THEN << ValidationError(
                 "below-minimum-" \o entityType \o "-" \o ToString(index) \o "-" \o fieldName,
                 "belowMinimum",
                 fieldName \o " must be at least " \o ToString(min) \o ", got: " \o ToStr(value),
                 "error", entityType, index, fieldName,
                 << "Set " \o fieldName \o " to " \o ToString(min) \o " or higher" >>) >>
       ELSE <<>>

\* validateMinValue visiting the rows from the last to the first
validateMinValueLastRowFirst(data, entityType, fieldName, min) ==
    IF NoRows(data) THEN <<>>
    ELSE Flat([i \in 1 .. Len(data) |->
                 MinValueRow(data[Len(data) + 1 - i], Len(data) - i, entityType, fieldName, min)])

\* 4b. validateMinValue
validateMinValue(data, entityType, fieldName, min) ==
    IF NoRows(data) THEN <<>>
    ELSE Flat([i \in 1 .. Len(data) |-> MinValueRow(data[i], i - 1, entityType, fieldName, min)])

\* what validateJSON pushes for one row
JSONRow(row, index, entityType, fieldName) ==
    LET value == Get(row, fieldName)
    IN IF Truthy(value) /\ TypeOf(value) = "string" /\ JSONParseThrows(value.s)
       THEN << ValidationError(
                 "invalid-json-" \o entityType \o "-" \o ToString(index) \o "-" \o fieldName,
                 "invalidJSON",
                 fieldName \o " contains invalid JSON",
                 "error", entityType, index, fieldName,
                 << "Fix JSON syntax or use empty object {}" >>) >>
       ELSE <<>>

\* 5. validateJSON
validateJSON(data, entityType, fieldName) ==
    IF NoRows(data) THEN <<>>
    ELSE Flat([i \in 1 .. Len(data) |-> JSONRow(data[i], i - 1, entityType, fieldName)])

\* new Set(tasks.map((task) => task.TaskID).filter(Boolean))
TaskIdSet(tasksData) ==
    { Get(tasksData[i], "TaskID") : i \in { j \in 1 .. Len(tasksData) : Truthy(Get(tasksData[j], "TaskID")) } }

\* Set.prototype.has
SetHas(set, v) == \E x \in set : SameValueZero(x, v)

\* what validateTaskReferences pushes for one client row
TaskReferencesRow(client, index, taskIds) ==
    LET requestedTasks == Get(client, "RequestedTaskIDs")
    IN IF IsArray(requestedTasks)
       THEN LET unknownTasks == SelectSeq(requestedTasks.a, LAMBDA taskId : ~SetHas(taskIds, taskId))
            IN IF Len(unknownTasks) > 0
               THEN << ValidationError(
                         "unknown-task-refs-" \o ToString(index),
                         "unknownReferences",
                         "Unknown task references: " \o JoinWith(unknownTasks, ", "),
                         "error", "clients", index, "RequestedTaskIDs",
                         << "Remove unknown task IDs or add missing tasks" >>) >>
               ELSE <<>>
       ELSE <<>>

\* validateTaskReferences that looks up only the first task
validateTaskReferencesFirstTask(clientsData, tasksData) ==
    IF NoRows(clientsData) \/ NoRows(tasksData) THEN <<>>
    ELSE LET taskIds == TaskIdSet(SubSeq(tasksData, 1, 1))
         IN Flat([i \in 1 .. Len(clientsData) |-> TaskReferencesRow(clientsData[i], i - 1, taskIds)])

\* 6. validateTaskReferences
validateTaskReferences(clientsData, tasksData) ==
    IF NoRows(clientsData) \/ NoRows(tasksData) THEN <<>>
    ELSE LET taskIds == TaskIdSet(tasksData)
         IN Flat([i \in 1 .. Len(clientsData) |-> TaskReferencesRow(clientsData[i], i - 1, taskIds)])

\* tasks.map and clients.forEach both read a property of every row
TaskReferencesThrows(clientsData, tasksData) ==
    ~(NoRows(clientsData) \/ NoRows(tasksData))
    /\ (SomeNullRow(tasksData) \/ SomeNullRow(clientsData))

\* WorkerCapacityRow comparing with <= where the code compares with <
WorkerCapacityRowAtMost(worker, index) ==
    LET availableSlots == Get(worker, "AvailableSlots")
        maxLoad == Get(worker, "MaxLoadPerPhase")
    IN IF IsArray(availableSlots) /\ TypeOf(maxLoad) = "number"
          /\ ~IsNaN(maxLoad) /\ Len(availableSlots.a) <= maxLoad.n
       THEN << ValidationError(
                 "overloaded-worker-" \o ToString(index),
                 "overloadedWorker",
                 "Worker has " \o ToString(Len(availableSlots.a))
                     \o " available slots but MaxLoadPerPhase is " \o ToStr(maxLoad),
                 "warning", "workers", index, "MaxLoadPerPhase",
                 << "Reduce MaxLoadPerPhase to " \o ToString(Len(availableSlots.a))
                     \o " or add more available slots" >>) >>
       ELSE <<>>

\* what validateWorkerCapacity pushes for one worker row
WorkerCapacityRow(worker, index) ==
    LET availableSlots == Get(worker, "AvailableSlots")
        maxLoad == Get(worker, "MaxLoadPerPhase")
    IN IF IsArray(availableSlots) /\ TypeOf(maxLoad) = "number"
          /\ ~IsNaN(maxLoad) /\ Len(availableSlots.a) < maxLoad.n   \* x < NaN is false
       THEN << ValidationError(
                 "overloaded-worker-" \o ToString(index),
                 "overloadedWorker",
                 "Worker has " \o ToString(Len(availableSlots.a))
                     \o " available slots but MaxLoadPerPhase is " \o ToStr(maxLoad),
                 "warning", "workers", index, "MaxLoadPerPhase",
                 << "Reduce MaxLoadPerPhase to " \o ToString(Len(availableSlots.a))
                     \o " or add more available slots" >>) >>
       ELSE <<>>

\* 7. validateWorkerCapacity
validateWorkerCapacity(workersData) ==
    IF NoRows(workersData) THEN <<>>
    ELSE Flat([i \in 1 .. Len(workersData) |-> WorkerCapacityRow(workersData[i], i - 1)])

\* the Set of every element of every worker's Skills array
AvailableSkills(workersData) ==
    UNION { { Get(workersData[i], "Skills").a[k] : k \in 1 .. Len(Get(workersData[i], "Skills").a) }
            : i \in { j \in 1 .. Len(workersData) : IsArray(Get(workersData[j], "Skills")) } }

\* SkillCoverageRow reporting its finding with severity error
SkillCoverageRowAsError(task, index, availableSkills) ==
    LET requiredSkills == Get(task, "RequiredSkills")
    IN IF IsArray(requiredSkills)
       THEN LET uncoveredSkills == SelectSeq(requiredSkills.a, LAMBDA skill : ~SetHas(availableSkills, skill))
            IN IF Len(uncoveredSkills) > 0
               THEN << ValidationError(
                         "uncovered-skills-" \o ToString(index),
                         "uncoveredSkills",
                         "Required skills not available in worker pool: "
                             \o JoinWith(uncoveredSkills, ", "),
                         "error", "tasks", index, "RequiredSkills",
                         << "Add workers with these skills or remove skill requirements" >>) >>
               ELSE <<>>
       ELSE <<>>

\* what validateSkillCoverage pushes for one task row
SkillCoverageRow(task, index, availableSkills) ==
    LET requiredSkills == Get(task, "RequiredSkills")
    IN IF IsArray(requiredSkills)
       THEN LET uncoveredSkills == SelectSeq(requiredSkills.a, LAMBDA skill : ~SetHas(availableSkills, skill))
            IN IF Len(uncoveredSkills) > 0
               THEN << ValidationError(
                         "uncovered-skills-" \o ToString(index),
                         "uncoveredSkills",
                         "Required skills not available in worker pool: "
                             \o JoinWith(uncoveredSkills, ", "),
                         "warning", "tasks", index, "RequiredSkills",
                         << "Add workers with these skills or remove skill requirements" >>) >>
               ELSE <<>>
       ELSE <<>>

\* validateSkillCoverage collecting the skills of the first worker only
validateSkillCoverageFirstWorker(workersData, tasksData) ==
    IF NoRows(workersData) \/ NoRows(tasksData) THEN <<>>
    ELSE LET availableSkills == AvailableSkills(SubSeq(workersData, 1, 1))
         IN Flat([i \in 1 .. Len(tasksData) |-> SkillCoverageRow(tasksData[i], i - 1, availableSkills)])

\* 8. validateSkillCoverage
validateSkillCoverage(workersData, tasksData) ==
    IF NoRows(workersData) \/ NoRows(tasksData) THEN <<>>
    ELSE LET availableSkills == AvailableSkills(workersData)
         IN Flat([i \in 1 .. Len(tasksData) |-> SkillCoverageRow(tasksData[i], i - 1, availableSkills)])

\* workers.forEach and tasks.forEach both read a property of every row
SkillCoverageThrows(workersData, tasksData) ==
    ~(NoRows(workersData) \/ NoRows(tasksData))
    /\ (SomeNullRow(workersData) \/ SomeNullRow(tasksData))

(***************************************************************************)
(* POST /api/validate                                                      *)
(***************************************************************************)
ClientRequired == <<"ClientID", "Name", "PriorityLevel">>
WorkerRequired == <<"WorkerID", "Name", "Skills", "AvailableSlots">>
TaskRequired == <<"TaskID", "Name", "Duration", "RequiredSkills">>

\* the rule calls with the worker-capacity rule called first
RuleCallsCapacityFirst(c, w, t) ==
    << validateWorkerCapacity(w),
       validateRequiredColumns(c, "clients", ClientRequired),
       validateRequiredColumns(w, "workers", WorkerRequired),
       validateRequiredColumns(t, "tasks", TaskRequired),
       validateUniqueIds(c, "clients", "ClientID"),
       validateUniqueIds(w, "workers", "WorkerID"),
       validateUniqueIds(t, "tasks", "TaskID"),
       validateArrayFields(w, "workers", "AvailableSlots", "number"),
       validateArrayFields(w, "workers", "Skills", "string"),
       validateArrayFields(t, "tasks", "RequiredSkills", "string"),
       validateArrayFields(t, "tasks", "PreferredPhases", "number"),
       validateRange(c, "clients", "PriorityLevel", 1, 5),
       validateMinValue(t, "tasks", "Duration", 1),
       validateMinValue(t, "tasks", "MaxConcurrent", 1),
       validateMinValue(w, "workers", "MaxLoadPerPhase", 1),
       validateJSON(c, "clients", "AttributesJSON"),
       validateJSON(w, "workers", "AttributesJSON"),
       validateJSON(t, "tasks", "AttributesJSON"),
       validateTaskReferences(c, t),
       validateSkillCoverage(w, t) >>

\* the rule calls of the try block, in call order, when none of them throws
RuleCalls(c, w, t) ==
    << validateRequiredColumns(c, "clients", ClientRequired),
       validateRequiredColumns(w, "workers", WorkerRequired),
       validateRequiredColumns(t, "tasks", TaskRequired),
       validateUniqueIds(c, "clients", "ClientID"),
       validateUniqueIds(w, "workers", "WorkerID"),
       validateUniqueIds(t, "tasks", "TaskID"),
       validateArrayFields(w, "workers", "AvailableSlots", "number"),
       validateArrayFields(w, "workers", "Skills", "string"),
       validateArrayFields(t, "tasks", "RequiredSkills", "string"),
       validateArrayFields(t, "tasks", "PreferredPhases", "number"),
       validateRange(c, "clients", "PriorityLevel", 1, 5),
       validateMinValue(t, "tasks", "Duration", 1),
       validateMinValue(t, "tasks", "MaxConcurrent", 1),
       validateMinValue(w, "workers", "MaxLoadPerPhase", 1),
       validateJSON(c, "clients", "AttributesJSON"),
       validateJSON(w, "workers", "AttributesJSON"),
       validateJSON(t, "tasks", "AttributesJSON"),
       validateTaskReferences(c, t),
       validateWorkerCapacity(w),
       validateSkillCoverage(w, t) >>

\* some rule call of the try block throws (a TypeError on a null row)
RuleCallThrows(c, w, t) ==
    \/ RowLoopThrows(c) \/ RowLoopThrows(w) \/ RowLoopThrows(t)
    \/ TaskReferencesThrows(c, t)
    \/ SkillCoverageThrows(w, t)

\* the response of POST: the catch answers status 500 with an empty list
ValidateResponse(c, w, t) ==
    IF RuleCallThrows(c, w, t)
    THEN [status |-> 500, errors |-> <<>>]
    ELSE [status |-> 200, errors |-> Flat(RuleCalls(c, w, t))]

\* the snapshot of a request body
Snapshot(c, w, t) == [clients |-> c, workers |-> w, tasks |-> t]

\* rules that drop the null rows of workers before they look at them
RowsAfterRulesWithoutNull(c, w, t) ==
    [clients |-> c, workers |-> SelectSeq(w, LAMBDA row : row # NullRow), tasks |-> t]

\* the collections as the rule calls leave them: every rule reads the rows and
\* writes to errors (errors.push) only
RowsAfterRules(c, w, t) == Snapshot(c, w, t)

\* a handler whose errors array outlives the call: it appends to the last list
POSTKeepsErrors ==
    /\ vpc = "request"
    /\ LET r == ValidateResponse(clients, workers, tasks)
       IN /\ status' = r.status
          /\ errors' = errors \o r.errors
          /\ served' = Append(served, [request |-> Snapshot(clients, workers, tasks),
                                       status |-> r.status, errors |-> errors \o r.errors])
    /\ vpc' = "responded"
    /\ clients' = RowsAfterRules(clients, workers, tasks).clients
    /\ workers' = RowsAfterRules(clients, workers, tasks).workers
    /\ tasks' = RowsAfterRules(clients, workers, tasks).tasks
    /\ UNCHANGED mvars
    /\ UNCHANGED xvars

\* the handler runs once on the request it was given: const errors = [] is a
\* fresh array of this call, filled by the rule calls and sent as the response
POST ==
    /\ vpc = "request"
    /\ LET r == ValidateResponse(clients, workers, tasks)
       IN /\ status' = r.status
          /\ errors' = r.errors
          /\ served' = Append(served, [request |-> Snapshot(clients, workers, tasks),
                                       status |-> r.status, errors |-> r.errors])
    /\ vpc' = "responded"
    /\ clients' = RowsAfterRules(clients, workers, tasks).clients
    /\ workers' = RowsAfterRules(clients, workers, tasks).workers
    /\ tasks' = RowsAfterRules(clients, workers, tasks).tasks
    /\ UNCHANGED mvars
    /\ UNCHANGED xvars

(***************************************************************************)
(* Request bodies.  A request carries at most MaxRows rows in all; the     *)
(* rows of each collection are drawn from a pool of rows.                  *)
(***************************************************************************)
MaxRows == 3

\* row with column col set to v; v = Undefined: the row lacks the column
WithColumn(row, col, v) ==
    IF v = Undefined
    THEN [k \in DOMAIN row \ {col} |-> row[k]]
    ELSE [k \in DOMAIN row \cup {col} |-> IF k = col THEN v ELSE row[k]]

\* rows without any defect
GoodClient(id) ==
    [ClientID |-> Str(id), Name |-> Str("n"), PriorityLevel |-> Num(3),
     RequestedTaskIDs |-> Arr(<<>>), AttributesJSON |-> Str("{}")]
GoodWorker(id) ==
    [WorkerID |-> Str(id), Name |-> Str("n"), Skills |-> Arr(<<Str("s1")>>),
     AvailableSlots |-> Arr(<<Num(1), Num(2)>>), MaxLoadPerPhase |-> Num(1)]
GoodTask(id) ==
    [TaskID |-> Str(id), Name |-> Str("n"), Duration |-> Num(2),
     RequiredSkills |-> Arr(<<Str("s1")>>), PreferredPhases |-> Arr(<<Num(1)>>),
     MaxConcurrent |-> Num(1)]

\* the requests whose rows come from the three pools
RequestFrom(poolC, poolW, poolT) ==
    /\ \E a \in 0 .. MaxRows : \E b \in 0 .. MaxRows - a : \E c \in 0 .. MaxRows - a - b :
         /\ clients \in [1 .. a -> poolC]
         /\ workers \in [1 .. b -> poolW]
         /\ tasks \in [1 .. c -> poolT]
    /\ vpc = "request"
    /\ status = 0
    /\ errors = <<>>
    /\ served = <<>>

\* no response is being cleaned
CleaningIdle == generated = <<>> /\ jsonStr = <<>>

\* no concurrent invocations
ConcurrentIdle == inv = <<>>

\* the page as it is before anything was loaded
PageIdle ==
    /\ uploadedData = [clients |-> <<>>, workers |-> <<>>, tasks |-> <<>>]
    /\ validationErrors = <<>>
    /\ appliedCorrections = <<>>
    /\ autoFix = [pc |-> "idle", list |-> <<>>, i |-> 0, shared |-> TRUE,
                  newData |-> [clients |-> <<>>, workers |-> <<>>, tasks |-> <<>>]]
    /\ applications = <<>>
    /\ appliedChanges = {}
    /\ pending = {}
    /\ issued = 0
    /\ exportOptions = [includeClients |-> TRUE, includeWorkers |-> TRUE,
                        includeTasks |-> TRUE]
    /\ exporting = FALSE
    /\ downloaded = {}
    /\ upload = [pc |-> "idle", data |-> [clients |-> <<>>, workers |-> <<>>, tasks |-> <<>>],
                 parsed |-> [clients |-> <<>>, workers |-> <<>>, tasks |-> <<>>],
                 answers |-> <<>>]

\* no mediator invocation
MediatorIdle ==
    /\ provider = "ollama" /\ mpc = "idle" /\ attempt = 1 /\ retryCount = 0
    /\ lastError = [kind |-> "none", at |-> 0] /\ calls = 0 /\ outcomes = <<>>
    /\ waits = 0 /\ delay = 0 /\ result = <<>> /\ failure = [kind |-> "none", at |-> 0]
    /\ CleaningIdle
    /\ ConcurrentIdle
    /\ PageIdle

\* identifier cells: no such column, the empty string, two identifiers
IdValues == {Undefined, Str(""), Str("A"), Str("B")}

\* requests whose rows differ in their identifier column
InitIds ==
    /\ RequestFrom({ WithColumn(GoodClient("A"), "ClientID", v) : v \in IdValues },
                   { WithColumn(GoodWorker("A"), "WorkerID", v) : v \in IdValues },
                   { WithColumn(GoodTask("A"), "TaskID", v) : v \in IdValues })
    /\ MediatorIdle

\* RequestedTaskIDs cells: none, a string as a spreadsheet delivers it, arrays
RequestedValues ==
    { Undefined, Str("T1,T9"), Arr(<<>>), Arr(<<Str("T1")>>), Arr(<<Str("T9")>>),
      Arr(<<Str("T1"), Str("T9")>>) }
TaskIdValues == {Undefined, Str(""), Str("T1"), Str("T2")}

\* requests whose clients differ in RequestedTaskIDs and whose tasks differ in TaskID
InitRefs ==
    /\ RequestFrom({ WithColumn(GoodClient("C1"), "RequestedTaskIDs", v) : v \in RequestedValues },
                   { GoodWorker("W1") },
                   { WithColumn(GoodTask("T1"), "TaskID", v) : v \in TaskIdValues })
    /\ MediatorIdle

\* requests with rows that are null, next to sound rows and rows with a defect
InitRows ==
    /\ RequestFrom({ GoodClient("C1"), NullRow, WithColumn(GoodClient("C1"), "PriorityLevel", Num(9)) },
                   { GoodWorker("W1"), NullRow },
                   { GoodTask("T1"), NullRow, WithColumn(GoodTask("T1"), "Duration", Num(0)) })
    /\ MediatorIdle

ValidateNext == POST

SpecValidateIds == InitIds /\ [][ValidateNext]_vars
SpecValidateRefs == InitRefs /\ [][ValidateNext]_vars
SpecValidateRows == InitRows /\ [][ValidateNext]_vars

\* AvailableSlots and MaxLoadPerPhase cells: none, the text a spreadsheet
\* delivers, arrays of slot numbers / numbers
SlotValues == {Undefined, Str("1,2"), Arr(<<>>), Arr(<<Num(1), Num(2)>>)}
MaxLoadValues == {Undefined, Str("4"), Num(1), Num(2), Num(4)}

\* requests whose workers differ in AvailableSlots and MaxLoadPerPhase
InitCapacity ==
    /\ RequestFrom({ GoodClient("C1") },
                   { WithColumn(WithColumn(GoodWorker("W1"), "AvailableSlots", s),
                                "MaxLoadPerPhase", m) : s \in SlotValues, m \in MaxLoadValues },
                   { GoodTask("T1") })
    /\ MediatorIdle

SpecValidateCapacity == InitCapacity /\ [][ValidateNext]_vars

\* Skills and RequiredSkills cells: none, the text a spreadsheet delivers, arrays
SkillsValues ==
    { Undefined, Str("s1,s2"), Arr(<<>>), Arr(<<Str("s1")>>), Arr(<<Str("s2")>>),
      Arr(<<Str("s1"), Str("s2")>>) }
RequiredSkillsValues ==
    { Undefined, Str("s1"), Arr(<<>>), Arr(<<Str("s1")>>), Arr(<<Str("s3")>>),
      Arr(<<Str("s1"), Str("s2")>>) }

\* requests whose workers differ in Skills and whose tasks differ in RequiredSkills
InitSkills ==
    /\ RequestFrom({ GoodClient("C1") },
                   { WithColumn(GoodWorker("W1"), "Skills", v) : v \in SkillsValues },
                   { WithColumn(GoodTask("T1"), "RequiredSkills", v) : v \in RequiredSkillsValues })
    /\ MediatorIdle

SpecValidateSkills == InitSkills /\ [][ValidateNext]_vars

\* PriorityLevel, Duration, MaxConcurrent and MaxLoadPerPhase cells: none, null,
\* numbers in and out of range, the texts a spreadsheet delivers
PriorityValues == {Undefined, Null, Num(0), Num(5), Num(6), Str("3"), Str("x")}
DurationValues == {Undefined, Null, Num(0), Str("2"), Str("x")}
MaxConcurrentValues == {Undefined, Num(0), Str("")}
MaxLoadMinValues == {Undefined, Num(0), Str("1")}

\* requests whose rows differ in their numeric cells
InitNumeric ==
    /\ RequestFrom({ WithColumn(GoodClient("C1"), "PriorityLevel", v) : v \in PriorityValues },
                   { WithColumn(GoodWorker("W1"), "MaxLoadPerPhase", v) : v \in MaxLoadMinValues },
                   { WithColumn(GoodTask("T1"), "Duration", v) : v \in DurationValues }
                       \cup { WithColumn(GoodTask("T1"), "MaxConcurrent", v) : v \in MaxConcurrentValues })
    /\ MediatorIdle

SpecValidateNumeric == InitNumeric /\ [][ValidateNext]_vars

\* array cells: none, null, the text a spreadsheet delivers, arrays whose
\* elements are numbers, numeral texts, other texts
NumberArrayValues ==
    { Undefined, Null, Str("1,2"), Arr(<<>>), Arr(<<Num(1), Num(2)>>),
      Arr(<<Str("1"), Num(2)>>), Arr(<<Str("x")>>) }
StringArrayValues ==
    { Undefined, Null, Str("s1"), Arr(<<Str("s1")>>), Arr(<<Str("s1"), Num(1)>>) }

\* requests whose workers and tasks differ in one array cell
InitArrays ==
    /\ RequestFrom({ GoodClient("C1") },
                   { WithColumn(GoodWorker("W1"), "AvailableSlots", v) : v \in NumberArrayValues }
                       \cup { WithColumn(GoodWorker("W1"), "Skills", v) : v \in StringArrayValues },
                   { WithColumn(GoodTask("T1"), "PreferredPhases", v) : v \in NumberArrayValues }
                       \cup { WithColumn(GoodTask("T1"), "RequiredSkills", v) : v \in StringArrayValues })
    /\ MediatorIdle

SpecValidateArrays == InitArrays /\ [][ValidateNext]_vars

\* rows that lack some of their required columns
RowsLacking(row, columnSets) ==
    { [k \in DOMAIN row \ cols |-> row[k]] : cols \in columnSets }

\* requests whose rows differ in the required columns they carry
InitColumns ==
    /\ RequestFrom(RowsLacking(GoodClient("C1"), { {}, {"Name"}, {"PriorityLevel"},
                                                   {"Name", "PriorityLevel"} }),
                   RowsLacking(GoodWorker("W1"), { {}, {"Skills"}, {"Name", "AvailableSlots"} }),
                   RowsLacking(GoodTask("T1"), { {}, {"Duration"}, {"Name", "RequiredSkills"} }))
    /\ MediatorIdle

SpecValidateColumns == InitColumns /\ [][ValidateNext]_vars

\* rows with defects of several kinds
ClientRows ==
    { GoodClient("C1"),
      WithColumn(GoodClient("C1"), "PriorityLevel", Num(0)),
      WithColumn(WithColumn(WithColumn(WithColumn(GoodClient("C1"), "PriorityLevel", Num(9)),
                                       "AttributesJSON", Str("{bad")),
                            "RequestedTaskIDs", Arr(<<Str("T9")>>)),
                 "Name", Undefined),
      WithColumn(GoodClient("C2"), "Name", Undefined) }
WorkerRows ==
    { GoodWorker("W1"),
      WithColumn(GoodWorker("W1"), "AvailableSlots", Str("1,2")),
      WithColumn(WithColumn(WithColumn(GoodWorker("W1"), "Skills", Arr(<<Num(1)>>)),
                            "MaxLoadPerPhase", Num(0)),
                 "AttributesJSON", Str("{bad")),
      WithColumn(WithColumn(WithColumn(GoodWorker("W2"), "AvailableSlots", Arr(<<Num(1)>>)),
                            "MaxLoadPerPhase", Num(4)),
                 "Skills", Arr(<<Str("s2"), Num(1)>>)) }
TaskRows ==
    { GoodTask("T1"),
      WithColumn(GoodTask("T1"), "Duration", Num(0)),
      WithColumn(WithColumn(WithColumn(GoodTask("T1"), "MaxConcurrent", Str("x")),
                            "RequiredSkills", Arr(<<Str("s3")>>)),
                 "AttributesJSON", Str("{bad")),
      WithColumn(GoodTask("T2"), "PreferredPhases", Str("1-3")) }

\* requests that make rules of every kind fire together
InitMixed ==
    /\ RequestFrom(ClientRows, WorkerRows, TaskRows)
    /\ MediatorIdle

SpecValidateMixed == InitMixed /\ [][ValidateNext]_vars

(***************************************************************************)
(* The route answering one request after another.                          *)
(***************************************************************************)
MaxCalls == 3

\* the snapshots the callers send: nothing, rows with defects of several
\* kinds, repeated rows, a snapshot with a null row
Snapshots ==
    { Snapshot(<<>>, <<>>, <<>>),
      Snapshot(<< WithColumn(GoodClient("C1"), "PriorityLevel", Num(9)) >>,
               << WithColumn(GoodWorker("W1"), "MaxLoadPerPhase", Num(4)) >>,
               << WithColumn(GoodTask("T1"), "RequiredSkills", Arr(<<Str("s3")>>)) >>),
      Snapshot(<< GoodClient("C1"), GoodClient("C1") >>, <<>>,
               << WithColumn(GoodTask("T1"), "Duration", Num(0)),
                  WithColumn(GoodTask("T1"), "Duration", Num(0)) >>),
      Snapshot(<< GoodClient("C1") >>, << NullRow >>, <<>>) }

\* the first request
InitRepeat ==
    /\ \E r \in Snapshots : clients = r.clients /\ workers = r.workers /\ tasks = r.tasks
    /\ vpc = "request"
    /\ status = 0
    /\ errors = <<>>
    /\ served = <<>>
    /\ MediatorIdle

\* the next request arrives after the response to the last one was sent
NextRequest ==
    /\ vpc = "responded"
    /\ Len(served) < MaxCalls
    /\ \E r \in Snapshots : clients' = r.clients /\ workers' = r.workers /\ tasks' = r.tasks
    /\ vpc' = "request"
    /\ UNCHANGED <<status, errors, served>>
    /\ UNCHANGED mvars
    /\ UNCHANGED xvars

RepeatNext == POST \/ NextRequest

SpecValidateRepeat == InitRepeat /\ [][RepeatNext]_vars

(***************************************************************************)
(* Response texts.  A text is a sequence of lexemes: the braces, the       *)
(* members of a JSON object ("good": they satisfy the target schema,       *)
(* "bad": they do not), prose ("text"), the code-fence markers (FENCE is   *)
(* three backticks, FENCEJSON three backticks and the word json) and the   *)
(* line break NL.                                                          *)
(***************************************************************************)
IsSpace(tok) == tok = "NL"

RECURSIVE TrimLeft(_)
TrimLeft(q) == IF q # <<>> /\ IsSpace(Head(q)) THEN TrimLeft(Tail(q)) ELSE q

RECURSIVE TrimRight(_)
TrimRight(q) == IF q # <<>> /\ IsSpace(q[Len(q)]) THEN TrimRight(SubSeq(q, 1, Len(q) - 1)) ELSE q

\* String.prototype.trim
Trim(q) == TrimRight(TrimLeft(q))

\* indexOf / lastIndexOf, 1-based; 0 where JavaScript answers -1
IndexOf(q, tok) ==
    IF \E i \in 1 .. Len(q) : q[i] = tok
    THEN CHOOSE i \in 1 .. Len(q) : q[i] = tok /\ \A j \in 1 .. i - 1 : q[j] # tok
    ELSE 0
LastIndexOf(q, tok) ==
    IF \E i \in 1 .. Len(q) : q[i] = tok
    THEN CHOOSE i \in 1 .. Len(q) : q[i] = tok /\ \A j \in i + 1 .. Len(q) : q[j] # tok
    ELSE 0

\* ^ and $ under the m flag
AtLineStart(q, i) == i = 1 \/ q[i - 1] = "NL"
AtLineEnd(q, i) == i = Len(q) \/ q[i + 1] = "NL"

RECURSIVE StripLineStart(_, _, _, _)
\* replace(/^fence\s*/gm, '') from lexeme i on; eating: inside the \s* of a match.
\* A "FENCEJSON" lexeme met by /^/ loses its backticks and leaves the word.
StripLineStart(q, fence, i, eating) ==
    IF i > Len(q) THEN <<>>
    ELSE IF q[i] = fence /\ AtLineStart(q, i) THEN StripLineStart(q, fence, i + 1, TRUE)
    ELSE IF fence = "FENCE" /\ q[i] = "FENCEJSON" /\ AtLineStart(q, i)
         THEN <<"text">> \o StripLineStart(q, fence, i + 1, FALSE)
    ELSE IF eating /\ IsSpace(q[i]) THEN StripLineStart(q, fence, i + 1, TRUE)
    ELSE <<q[i]>> \o StripLineStart(q, fence, i + 1, FALSE)

\* replace(/\s*fence$/gm, ''): a closing fence at a line end goes, with the
\* white space right before it
StripLineEnd(q) ==
    LET Fence(i) == q[i] = "FENCE" /\ AtLineEnd(q, i)
        Gone(j) == \/ Fence(j)
                   \/ /\ IsSpace(q[j])
                      /\ \E i \in j + 1 .. Len(q) :
                             Fence(i) /\ \A k \in j .. i - 1 : IsSpace(q[k])
        keep == { j \in 1 .. Len(q) : ~Gone(j) }
        RECURSIVE Pick(_)
        Pick(j) == IF j > Len(q) THEN <<>>
                   ELSE (IF j \in keep THEN <<q[j]>> ELSE <<>>) \o Pick(j + 1)
    IN Pick(1)

\* the cleaning without the removal of the text before the first brace
CleanKeepsPrefix(response) ==
    LET trimmed == Trim(response)
        lastBrace == LastIndexOf(trimmed, "}")
        toBrace == IF lastBrace # 0 THEN SubSeq(trimmed, 1, lastBrace) ELSE trimmed
    IN StripLineEnd(StripLineStart(StripLineStart(toBrace, "FENCEJSON", 1, FALSE), "FENCE", 1, FALSE))

\* the cleaning of OllamaClient.generateStructuredOutput
Clean(response) ==
    LET trimmed == Trim(response)
        firstBrace == IndexOf(trimmed, "{")
        fromBrace == IF firstBrace > 1 THEN SubSeq(trimmed, firstBrace, Len(trimmed)) ELSE trimmed
        lastBrace == LastIndexOf(fromBrace, "}")
        toBrace == IF lastBrace # 0 THEN SubSeq(fromBrace, 1, lastBrace) ELSE fromBrace
    IN StripLineEnd(StripLineStart(StripLineStart(toBrace, "FENCEJSON", 1, FALSE), "FENCE", 1, FALSE))

\* JSON.parse followed by what the parsed value is: "good" (an object that
\* satisfies the schema), "bad" (JSON of another shape) or "SyntaxError"
JSONParse(q) ==
    LET core == SelectSeq(q, LAMBDA tok : ~IsSpace(tok))
    IN IF core = <<"{", "good", "}">> THEN "good"
       ELSE IF core \in { <<"{", "bad", "}">>, <<"{", "}">> } THEN "bad"
       ELSE "SyntaxError"

\* the response texts the provider stub may return
ResponseTexts ==
    { <<"{", "good", "}">>,
      <<"FENCEJSON", "NL", "{", "good", "}", "NL", "FENCE">>,
      <<"{", "bad", "}">>,
      <<"text">>,
      <<"{", "good">>,
      <<>> }

\* what one provider call may produce: a text, a rate-limit error (its
\* message holds "429 Too Many Requests"), or another transport/server error
ProviderOutcomes ==
    { [kind |-> "text", text |-> t] : t \in ResponseTexts }
    \cup { [kind |-> "RateLimit", text |-> <<>>], [kind |-> "Transport", text |-> <<>>] }

Providers == {"ollama", "gemini", "openai"}

\* no error / an error of a kind, raised by the provider call number at
NoError == [kind |-> "none", at |-> 0]
ErrorOf(kind, at) == [kind |-> kind, at |-> at]

\* OllamaClient.generateStructuredOutput
maxAttempts == 3
\* generateStructuredOutput (gemini)
maxRetries == 5
baseDelay == 1000
maxDelay == 60000
\* 0.8 + Math.random() * 0.4, in percent
MinJitterPercent == 80
MaxJitterPercent == 120
JitterPercents == MinJitterPercent .. MaxJitterPercent

\* the body of the try block after the provider call: "ok", or the kind of
\* the error it throws
OllamaTry(o) ==
    IF o.kind # "text" THEN o.kind
    ELSE LET parsed == JSONParse(Clean(o.text))
         IN IF parsed = "SyntaxError" THEN "SyntaxError"
            ELSE IF parsed = "good" THEN "ok" ELSE "ZodError"

\* gemini: JSON.parse and schema.parse sit in an inner try whose catch
\* throws new Error("Failed to parse structured output from AI")
GeminiTry(o) ==
    IF o.kind # "text" THEN o.kind
    ELSE IF JSONParse(o.text) = "good" THEN "ok" ELSE "ParseFailed"

\* openai: JSON.parse(response), schema.parse(parsedData), nothing caught
OpenAITry(o) ==
    IF o.kind # "text" THEN o.kind
    ELSE LET parsed == JSONParse(o.text)
         IN IF parsed = "SyntaxError" THEN "SyntaxError"
            ELSE IF parsed = "good" THEN "ok" ELSE "ZodError"

\* the value a successful attempt returns: what call at delivered
ValueOf(o, at) == [text |-> o.text, at |-> at]

\* the ollama catch block with attempt <= maxAttempts for its test
OllamaAfterFailureOffByOne(att) == IF att <= maxAttempts THEN "wait" ELSE "thrown"

\* ollama, catch block: if (attempt < maxAttempts) wait and go on, else the
\* loop ends and lastError is thrown
OllamaAfterFailure(att) == IF att < maxAttempts THEN "wait" ELSE "thrown"

\* the gemini catch block looking for a text no error message holds
IsRateLimitErrorWrongText(kind) == kind = "rate limit exceeded"

\* the gemini catch block retrying whatever the error is
IsRateLimitErrorAnyError(kind) == TRUE

\* gemini, catch block: error.message.includes("429 Too Many Requests")
IsRateLimitError(kind) == kind = "RateLimit"

\* a backoff that grows linearly with retryCount
expBackoffLinear(rc, jitterPercent) ==
    LET raw == (baseDelay * rc * jitterPercent) \div 100
    IN IF raw < maxDelay THEN raw ELSE maxDelay

\* gemini: Math.min(maxDelay, baseDelay * 2^retryCount * jitter)
expBackoff(rc, jitterPercent) ==
    LET raw == (baseDelay * (2 ^ rc) * jitterPercent) \div 100
    IN IF raw < maxDelay THEN raw ELSE maxDelay

\* the gemini loop with retryCount <= maxRetries for its condition
GeminiAfterSleepOffByOne(rc) == IF rc <= maxRetries THEN "call" ELSE "thrown"

\* gemini: while (retryCount < maxRetries), evaluated when the sleep is over
GeminiAfterSleep(rc) == IF rc < maxRetries THEN "call" ELSE "thrown"

\* the ollama pass whose success branch lacks its return statement
OllamaAttemptNoReturn ==
    /\ provider = "ollama"
    /\ mpc = "call"
    /\ \E o \in ProviderOutcomes :
         LET e == OllamaTry(o)
             n == calls + 1
         IN /\ calls' = n
            /\ outcomes' = Append(outcomes, o)
            /\ result' = IF e = "ok" THEN Append(result, ValueOf(o, n)) ELSE result
            /\ lastError' = IF e = "ok" THEN lastError ELSE ErrorOf(e, n)
            /\ mpc' = IF attempt < maxAttempts THEN "wait"
                      ELSE IF e = "ok" THEN "returned" ELSE "thrown"
            /\ IF attempt < maxAttempts
               THEN /\ waits' = waits + 1
                    /\ delay' = 1000
                    /\ UNCHANGED <<failure, attempt>>
               ELSE /\ attempt' = attempt + 1
                    /\ failure' = IF e = "ok" THEN failure ELSE lastError'
                    /\ UNCHANGED <<waits, delay>>
    /\ UNCHANGED <<provider, retryCount>>
    /\ UNCHANGED vvars
    /\ UNCHANGED xvars

\* one pass of the ollama for loop up to its next await or its exit
OllamaAttempt ==
    /\ provider = "ollama"
    /\ mpc = "call"
    /\ \E o \in ProviderOutcomes :
         LET e == OllamaTry(o)
             n == calls + 1
         IN /\ calls' = n
            /\ outcomes' = Append(outcomes, o)
            /\ IF e = "ok"
               THEN /\ result' = Append(result, ValueOf(o, n))
                    /\ mpc' = "returned"
                    /\ UNCHANGED <<lastError, failure, waits, delay, attempt>>
               ELSE /\ lastError' = ErrorOf(e, n)
                    /\ mpc' = OllamaAfterFailure(attempt)
                    /\ IF OllamaAfterFailure(attempt) = "wait"
                       THEN /\ waits' = waits + 1
                            /\ delay' = 1000
                            /\ UNCHANGED <<failure, attempt>>
                       ELSE /\ attempt' = attempt + 1
                            /\ failure' = lastError'
                            /\ UNCHANGED <<waits, delay>>
                    /\ UNCHANGED result
    /\ UNCHANGED <<provider, retryCount>>
    /\ UNCHANGED vvars
    /\ UNCHANGED xvars

\* the 1000 ms timer of the ollama catch block fires: attempt++, next pass
OllamaWaitElapsed ==
    /\ provider = "ollama"
    /\ mpc = "wait"
    /\ attempt' = attempt + 1
    /\ mpc' = "call"
    /\ UNCHANGED <<provider, retryCount, lastError, calls, outcomes, waits, delay, result, failure>>
    /\ UNCHANGED vvars
    /\ UNCHANGED xvars

\* one pass of the gemini while loop up to its sleep, its return or its throw
GeminiAttempt ==
    /\ provider = "gemini"
    /\ mpc = "call"
    /\ \E o \in ProviderOutcomes :
         LET e == GeminiTry(o)
             n == calls + 1
         IN /\ calls' = n
            /\ outcomes' = Append(outcomes, o)
            /\ IF e = "ok"
               THEN /\ result' = Append(result, ValueOf(o, n))
                    /\ mpc' = "returned"
                    /\ UNCHANGED <<lastError, failure, waits, delay, retryCount>>
               ELSE /\ lastError' = ErrorOf(e, n)
                    /\ IF IsRateLimitError(e)
                       THEN /\ retryCount' = retryCount + 1
                            /\ \E j \in JitterPercents : delay' = expBackoff(retryCount + 1, j)
                            /\ waits' = waits + 1
                            /\ mpc' = "sleep"
                            /\ UNCHANGED failure
                       ELSE /\ mpc' = "thrown"
                            /\ failure' = lastError'
                            /\ UNCHANGED <<retryCount, waits, delay>>
                    /\ UNCHANGED result
    /\ UNCHANGED <<provider, attempt>>
    /\ UNCHANGED vvars
    /\ UNCHANGED xvars

\* the backoff sleep is over: the while condition decides
GeminiSleepElapsed ==
    /\ provider = "gemini"
    /\ mpc = "sleep"
    /\ mpc' = GeminiAfterSleep(retryCount)
    /\ failure' = IF GeminiAfterSleep(retryCount) = "thrown" THEN lastError ELSE failure
    /\ UNCHANGED <<provider, attempt, retryCount, lastError, calls, outcomes, waits, delay, result>>
    /\ UNCHANGED vvars
    /\ UNCHANGED xvars

\* the openai case of the switch: one call, no loop, nothing caught
OpenAIAttempt ==
    /\ provider = "openai"
    /\ mpc = "call"
    /\ \E o \in ProviderOutcomes :
         LET e == OpenAITry(o)
             n == calls + 1
         IN /\ calls' = n
            /\ outcomes' = Append(outcomes, o)
            /\ IF e = "ok"
               THEN /\ result' = Append(result, ValueOf(o, n))
                    /\ mpc' = "returned"
                    /\ UNCHANGED failure
               ELSE /\ mpc' = "thrown"
                    /\ failure' = ErrorOf(e, n)
                    /\ UNCHANGED result
    /\ UNCHANGED <<provider, attempt, retryCount, lastError, waits, delay>>
    /\ UNCHANGED vvars
    /\ UNCHANGED xvars

\* no validate request, no mediator invocation
ValidateIdle ==
    /\ clients = <<>> /\ workers = <<>> /\ tasks = <<>>
    /\ vpc = "idle" /\ status = 0 /\ errors = <<>> /\ served = <<>>

\* generateStructuredOutput(prompt, schema, config) has just been called
MediatorInit ==
    /\ provider \in Providers
    /\ mpc = "call" /\ attempt = 1 /\ retryCount = 0
    /\ lastError = NoError /\ calls = 0 /\ outcomes = <<>> /\ waits = 0 /\ delay = 0
    /\ result = <<>> /\ failure = NoError
    /\ ValidateIdle
    /\ PageIdle
    /\ CleaningIdle
    /\ ConcurrentIdle

MediatorNext ==
    \/ OllamaAttempt
    \/ OllamaWaitElapsed
    \/ GeminiAttempt
    \/ GeminiSleepElapsed
    \/ OpenAIAttempt

SpecMediator == MediatorInit /\ [][MediatorNext]_vars

(***************************************************************************)
(* A provider call that never completes.  generateText awaits fetch and    *)
(* the gemini loop awaits generateContent; neither passes a signal or a    *)
(* timeout, so nothing in the invocation ends the await.                   *)
(***************************************************************************)
\* the provider call is sent and its promise never settles
ProviderCallPending ==
    /\ provider \in {"ollama", "gemini"}
    /\ mpc = "call"
    /\ calls' = calls + 1
    /\ outcomes' = Append(outcomes, [kind |-> "Pending", text |-> <<>>])
    /\ mpc' = "pending"
    /\ UNCHANGED <<provider, attempt, retryCount, lastError, waits, delay, result, failure>>
    /\ UNCHANGED vvars
    /\ UNCHANGED xvars

MediatorHangNext == MediatorNext \/ ProviderCallPending

SpecMediatorHang == MediatorInit /\ [][MediatorHangNext]_vars

(***************************************************************************)
(* Concurrent invocations.  Every variable of the retry loops (attempt,    *)
(* retryCount, lastError, the delay) is declared inside the function that  *)
(* runs the loop, so each invocation has its own; the shared OllamaClient  *)
(* carries baseUrl and model only.  inv[i] holds the locals of invocation  *)
(* i; script is what the provider stub answers to its calls, in order.     *)
(***************************************************************************)
Invocations == {"a", "b"}

GoodText == [kind |-> "text", text |-> <<"{", "good", "}">>]
ProseText == [kind |-> "text", text |-> <<"text">>]
FencedText == [kind |-> "text", text |-> <<"FENCEJSON", "NL", "{", "good", "}", "NL", "FENCE">>]
RateLimitError == [kind |-> "RateLimit", text |-> <<>>]
TransportError == [kind |-> "Transport", text |-> <<>>]

\* the stubs: the answer to call k is entry k, the last entry from then on
Scripts ==
    { <<GoodText>>, <<FencedText>>, <<ProseText>>, <<RateLimitError>>, <<TransportError>>,
      <<ProseText, GoodText>>, <<RateLimitError, RateLimitError, GoodText>> }
ScriptAt(script, k) == script[IF k < Len(script) THEN k ELSE Len(script)]

\* the jitter draws of the concurrent runs
ConcurrentJitter == {MinJitterPercent, MaxJitterPercent}

\* the locals of an invocation at its entry
NewInvocation(p, script) ==
    [provider |-> p, script |-> script, pc |-> "call", attempt |-> 1, retryCount |-> 0,
     lastError |-> NoError, calls |-> 0, inflight |-> 0, delay |-> 0,
     result |-> <<>>, failure |-> NoError]

\* the try block of the path of provider p on outcome o
TryOf(p, o) ==
    IF p = "ollama" THEN OllamaTry(o) ELSE IF p = "gemini" THEN GeminiTry(o) ELSE OpenAITry(o)

\* the provider call is sent: the function is suspended at its await
Sent(l) == [l EXCEPT !.pc = "inflight", !.calls = @ + 1, !.inflight = @ + 1]

\* the await settles with outcome o: the function runs on to its next await,
\* its return or its throw
Answered(l, o, jitterPercent) ==
    LET e == TryOf(l.provider, o)
        err == ErrorOf(e, l.calls)
        m == [l EXCEPT !.inflight = @ - 1]
    IN IF e = "ok"
       THEN [m EXCEPT !.pc = "returned", !.result = Append(@, ValueOf(o, l.calls))]
       ELSE IF l.provider = "ollama"
       THEN IF OllamaAfterFailure(l.attempt) = "wait"
            THEN [m EXCEPT !.lastError = err, !.pc = "wait", !.delay = 1000]
            ELSE [m EXCEPT !.lastError = err, !.attempt = @ + 1, !.pc = "thrown", !.failure = err]
       ELSE IF l.provider = "gemini"
       THEN IF IsRateLimitError(e)
            THEN [m EXCEPT !.lastError = err, !.retryCount = @ + 1, !.pc = "sleep",
                           !.delay = expBackoff(l.retryCount + 1, jitterPercent)]
            ELSE [m EXCEPT !.lastError = err, !.pc = "thrown", !.failure = err]
       ELSE [m EXCEPT !.pc = "thrown", !.failure = err]

\* the timer of the wait fires: the loop goes on or ends
TimerFired(l) ==
    IF l.provider = "ollama"
    THEN [l EXCEPT !.attempt = @ + 1, !.pc = "call"]
    ELSE [l EXCEPT !.pc = GeminiAfterSleep(l.retryCount),
                   !.failure = IF GeminiAfterSleep(l.retryCount) = "thrown" THEN l.lastError ELSE @]

\* loop counters kept in one place for all invocations: every invocation
\* reads the counters of invocation "a"
LocalsSharedCounters(i) ==
    [inv[i] EXCEPT !.attempt = inv["a"].attempt, !.retryCount = inv["a"].retryCount]

\* the variables a step of invocation i reads and writes: its own
Locals(i) == inv[i]

ConcurrentInit ==
    /\ inv \in [Invocations -> { NewInvocation(p, script) : p \in Providers, script \in Scripts }]
    /\ provider = "ollama" /\ mpc = "idle" /\ attempt = 1 /\ retryCount = 0
    /\ lastError = NoError /\ calls = 0 /\ outcomes = <<>>
    /\ waits = 0 /\ delay = 0 /\ result = <<>> /\ failure = NoError
    /\ ValidateIdle
    /\ PageIdle
    /\ CleaningIdle

SendCall(i) ==
    /\ inv[i].pc = "call"
    /\ inv' = [inv EXCEPT ![i] = Sent(Locals(i))]

CallSettles(i) ==
    /\ inv[i].pc = "inflight"
    /\ \E j \in ConcurrentJitter :
           inv' = [inv EXCEPT ![i] = Answered(Locals(i), ScriptAt(inv[i].script, inv[i].calls), j)]

TimerFires(i) ==
    /\ inv[i].pc \in {"wait", "sleep"}
    /\ inv' = [inv EXCEPT ![i] = TimerFired(Locals(i))]

ConcurrentNext ==
    /\ \E i \in Invocations : SendCall(i) \/ CallSettles(i) \/ TimerFires(i)
    /\ UNCHANGED vvars
    /\ UNCHANGED mvars
    /\ UNCHANGED cvars
    /\ UNCHANGED <<uvars, evars, fvars, avars>>

SpecConcurrent == ConcurrentInit /\ [][ConcurrentNext]_vars

(***************************************************************************)
(* The cleaning step of an ollama attempt, on responses that embed one     *)
(* JSON object: text, an opening fence, the object, a closing fence, text. *)
(***************************************************************************)
\* conversational text before and after, without and with braces of its own
TextBefore == { <<>>, <<"text", "NL">>, <<"{", "text", "}", "NL">>, <<"{", "text", "}">> }
TextAfter == { <<>>, <<"NL", "text">>, <<"NL", "{", "text", "}">> }

\* the fence around the object: none, three backticks, three backticks and json
Fences ==
    { [open |-> <<>>, close |-> <<>>],
      [open |-> <<"FENCE", "NL">>, close |-> <<"NL", "FENCE">>],
      [open |-> <<"FENCEJSON", "NL">>, close |-> <<"NL", "FENCE">>] }

\* the object, on one line or on several
JSONObjects == { <<"{", "good", "}">>, <<"{", "NL", "good", "NL", "}">>, <<"{", "bad", "}">> }

EmbeddedResponses ==
    { before \o f.open \o object \o f.close \o after :
        before \in TextBefore, f \in Fences, object \in JSONObjects, after \in TextAfter }

\* generateText has resolved with a response
CleaningInit ==
    /\ generated \in EmbeddedResponses
    /\ jsonStr = <<>>
    /\ provider = "ollama" /\ mpc = "clean" /\ attempt = 1 /\ retryCount = 0
    /\ lastError = NoError /\ calls = 1 /\ outcomes = << [kind |-> "text", text |-> generated] >>
    /\ waits = 0 /\ delay = 0 /\ result = <<>> /\ failure = NoError
    /\ ValidateIdle
    /\ PageIdle
    /\ ConcurrentIdle

\* the try block from response.trim() to the three replace calls: jsonStr is
\* what JSON.parse is called with next
CleanResponse ==
    /\ provider = "ollama"
    /\ mpc = "clean"
    /\ jsonStr' = Clean(generated)
    /\ mpc' = "parse"
    /\ UNCHANGED <<provider, attempt, retryCount, lastError, calls, outcomes, waits, delay,
                   result, failure, generated>>
    /\ UNCHANGED vvars
    /\ UNCHANGED <<inv, uvars, evars, fvars, avars>>

CleaningNext == CleanResponse

SpecCleaning == CleaningInit /\ [][CleaningNext]_vars

(***************************************************************************)
(* The page.  HomePage holds the records (uploadedData) and the findings   *)
(* (validationErrors); FileUpload, SampleDataLoader, AIErrorCorrection and *)
(* NaturalLanguageModifier change them through the two setters.  A request *)
(* to /api/validate stays in pending from the fetch until its response is  *)
(* handled; responses are handled in any order.  The rows hold strings,    *)
(* numbers, arrays and null only, which JSON.stringify and the route's     *)
(* request.json() carry over unchanged, so a body is the records sent.     *)
(***************************************************************************)
MaxRequests == 3

\* hasData of HomePage
hasData ==
    \/ Len(uploadedData.clients) > 0
    \/ Len(uploadedData.workers) > 0
    \/ Len(uploadedData.tasks) > 0

\* entityData[rowIndex][field] = value, done when the collection and the row
\* exist (a null row is falsy)
HasRow(data, entityType, rowIndex) ==
    /\ entityType \in DOMAIN data
    /\ rowIndex + 1 \in 1 .. Len(data[entityType])
    /\ data[entityType][rowIndex + 1] # NullRow
SetCell(data, entityType, rowIndex, field, value) ==
    IF HasRow(data, entityType, rowIndex)
    THEN [data EXCEPT ![entityType][rowIndex + 1] = WithColumn(@, field, value)]
    ELSE data

\* the files a user uploads, as parsed and AI-processed
UploadedFiles ==
    { Snapshot(<< WithColumn(GoodClient("C1"), "PriorityLevel", Num(9)) >>,
               << WithColumn(GoodWorker("W1"), "MaxLoadPerPhase", Num(4)) >>,
               << WithColumn(GoodTask("T1"), "Duration", Num(0)) >>),
      Snapshot(<< GoodClient("C1") >>, << NullRow >>, <<>>) }

\* the first rows of the sample data
SampleData ==
    Snapshot(<< [ClientID |-> Str("C001"), ClientName |-> Str("TechCorp Solutions"),
                 PriorityLevel |-> Num(5), RequestedTaskIDs |-> Str("T001,T003,T005"),
                 GroupTag |-> Str("Enterprise"), AttributesJSON |-> Str("{\"a\":1}")] >>,
             << [WorkerID |-> Str("W001"), WorkerName |-> Str("Alice Johnson"),
                 Skills |-> Str("JavaScript,React,Node.js"),
                 AvailableSlots |-> Arr(<<Num(1), Num(2), Num(3)>>),
                 MaxLoadPerPhase |-> Num(3), WorkerGroup |-> Str("Frontend"),
                 QualificationLevel |-> Num(5)] >>,
             << [TaskID |-> Str("T001"), TaskName |-> Str("Frontend Development"),
                 Category |-> Str("Development"), Duration |-> Num(2),
                 RequiredSkills |-> Str("JavaScript,React"),
                 PreferredPhases |-> Arr(<<Num(1), Num(2)>>),
                 MaxConcurrent |-> Num(2)] >>)

\* c.confidence > 0.8, the confidence counted in percent
AutoFixConfidencePercent == 80

\* the corrections the AI route proposed (CorrectionSuggestion)
corrections ==
    << [id |-> "k1", entityType |-> "clients", rowIndex |-> 0, field |-> "PriorityLevel",
        suggestedValue |-> Num(3), confidence |-> 90, autoApplicable |-> TRUE],
       [id |-> "k2", entityType |-> "workers", rowIndex |-> 0, field |-> "MaxLoadPerPhase",
        suggestedValue |-> Num(1), confidence |-> 90, autoApplicable |-> TRUE],
       [id |-> "k3", entityType |-> "tasks", rowIndex |-> 0, field |-> "Duration",
        suggestedValue |-> Num(2), confidence |-> 70, autoApplicable |-> FALSE] >>

\* the suggestions the AI route proposed (ModificationSuggestion)
suggestions ==
    << [id |-> "m1", entityType |-> "workers",
        changes |-> << [rowIndex |-> 0, field |-> "Skills", newValue |-> Arr(<<Str("s2")>>)],
                       [rowIndex |-> 1, field |-> "Skills", newValue |-> Arr(<<Str("s2")>>)] >>] >>

RECURSIVE ApplyChanges(_, _, _)
\* suggestion.changes.forEach: each change sets its cell
ApplyChanges(data, entityType, changes) ==
    IF changes = <<>> THEN data
    ELSE ApplyChanges(SetCell(data, entityType, Head(changes).rowIndex,
                              Head(changes).field, Head(changes).newValue),
                      entityType, Tail(changes))

\* fetch("/api/validate", body: JSON.stringify(data))
Fetch(origin, data) ==
    /\ issued < MaxRequests
    /\ issued' = issued + 1
    /\ pending' = pending \cup {[id |-> issued + 1, origin |-> origin, body |-> data]}

\* what the route answers to a request
ResponseTo(r) == ValidateResponse(r.body.clients, r.body.workers, r.body.tasks)

\* response.ok
ok(response) == response.status = 200

UIInit ==
    /\ PageIdle
    /\ ValidateIdle
    /\ CleaningIdle
    /\ ConcurrentIdle
    /\ provider = "ollama" /\ mpc = "idle" /\ attempt = 1 /\ retryCount = 0
    /\ lastError = NoError /\ calls = 0 /\ outcomes = <<>>
    /\ waits = 0 /\ delay = 0 /\ result = <<>> /\ failure = NoError

\* FileUpload.processFiles up to the fetch of validateData; the button is
\* there only while no upload is being processed
processFiles ==
    /\ \A r \in pending : r.origin # "upload"
    /\ \E data \in UploadedFiles : Fetch("upload", data)
    /\ UNCHANGED <<uploadedData, validationErrors, appliedCorrections, appliedChanges>>
    /\ UNCHANGED <<vvars, mvars, cvars, inv, evars, fvars, avars>>

\* setUploadedData with a new object while autoFixAll runs: the rows its
\* newData refers to are no longer those of the page
Detached ==
    IF autoFix.pc # "idle" /\ autoFix.shared
    THEN [autoFix EXCEPT !.shared = FALSE, !.newData = uploadedData]
    ELSE autoFix

\* the rest of processFiles: validateData returns the findings, or [] when the
\* response is not ok; then onDataUploaded(data), onValidationErrors(errors)
processFilesValidated ==
    \E r \in pending :
        /\ r.origin = "upload"
        /\ uploadedData' = r.body
        /\ validationErrors' = IF ok(ResponseTo(r)) THEN ResponseTo(r).errors ELSE <<>>
        /\ pending' = pending \ {r}
        /\ upload' = [upload EXCEPT !.pc = "idle"]      \* finally: setProcessing(false)
        /\ autoFix' = Detached
        /\ UNCHANGED <<appliedCorrections, appliedChanges, issued, applications>>
        /\ UNCHANGED <<vvars, mvars, cvars, inv, evars>>

\* SampleDataLoader.loadSampleData: onDataLoaded(sampleData), nothing else
loadSampleData ==
    /\ uploadedData' = SampleData
    /\ autoFix' = Detached
    /\ UNCHANGED <<validationErrors, appliedCorrections, appliedChanges, pending, issued,
                   applications>>
    /\ UNCHANGED <<vvars, mvars, cvars, inv, evars, fvars>>

\* NaturalLanguageModifier.applySuggestion
applySuggestion ==
    /\ hasData
    /\ \E k \in 1 .. Len(suggestions) :
        LET suggestion == suggestions[k]
        IN /\ suggestion.id \notin appliedChanges
           /\ uploadedData' = ApplyChanges(uploadedData, suggestion.entityType,
                                           suggestion.changes)
           /\ appliedChanges' = appliedChanges \cup {suggestion.id}
    /\ UNCHANGED <<validationErrors, appliedCorrections, pending, issued>>
    /\ UNCHANGED <<vvars, mvars, cvars, inv, evars, fvars, avars>>

\* appliedCorrections.includes(id)
IsApplied(id) == \E k \in 1 .. Len(appliedCorrections) : appliedCorrections[k] = id

\* the cell assignment of a correction is recorded when it is executed
Applying(data, correction) ==
    IF HasRow(data, correction.entityType, correction.rowIndex)
    THEN Append(applications, correction.id)
    ELSE applications

\* AIErrorCorrection.applyCorrection up to the fetch; the button is there for
\* the corrections whose id is not in appliedCorrections
applyCorrection ==
    /\ hasData
    /\ \E k \in 1 .. Len(corrections) :
        LET correction == corrections[k]
            newData == SetCell(uploadedData, correction.entityType, correction.rowIndex,
                               correction.field, correction.suggestedValue)
        IN /\ ~IsApplied(correction.id)
           /\ uploadedData' = newData
           /\ applications' = Applying(uploadedData, correction)
           /\ appliedCorrections' = Append(appliedCorrections, correction.id)
           /\ Fetch("revalidate", newData)
    /\ UNCHANGED <<validationErrors, appliedChanges, autoFix>>
    /\ UNCHANGED <<vvars, mvars, cvars, inv, evars, fvars>>

\* the corrections autoFixAll applies
autoApplicableCorrections ==
    SelectSeq(corrections, LAMBDA c : /\ c.autoApplicable
                                      /\ c.confidence > AutoFixConfidencePercent
                                      /\ ~IsApplied(c.id))

\* the records newData refers to
AutoFixData == IF autoFix.shared THEN uploadedData ELSE autoFix.newData

\* one pass of the loop of autoFixAll up to its pause: the cell is set in
\* place (newData shares its rows with the data of the page as long as the
\* page holds them), the id is recorded
AutoFixPass(list, i) ==
    LET correction == list[i]
        fixed == SetCell(AutoFixData, correction.entityType, correction.rowIndex,
                         correction.field, correction.suggestedValue)
    IN /\ applications' = Applying(AutoFixData, correction)
       /\ appliedCorrections' = Append(appliedCorrections, correction.id)
       /\ IF autoFix.shared
          THEN /\ uploadedData' = fixed
               /\ autoFix' = [autoFix EXCEPT !.pc = "paused", !.list = list, !.i = i]
          ELSE /\ autoFix' = [autoFix EXCEPT !.pc = "paused", !.list = list, !.i = i,
                                             !.newData = fixed]
               /\ UNCHANGED uploadedData

\* a click on Auto-fix all (disabled while autoFixProgress > 0): the
\* corrections are selected and the first pass of the loop runs
autoFixAll ==
    /\ hasData
    /\ autoFix.pc = "idle"
    /\ autoApplicableCorrections # <<>>
    /\ AutoFixPass(autoApplicableCorrections, 1)
    /\ UNCHANGED <<validationErrors, appliedChanges, pending, issued>>
    /\ UNCHANGED <<vvars, mvars, cvars, inv, evars, fvars>>

\* the 200 ms pause is over and a correction is left: the next pass
autoFixNextPass ==
    /\ autoFix.pc = "paused"
    /\ autoFix.i < Len(autoFix.list)
    /\ AutoFixPass(autoFix.list, autoFix.i + 1)
    /\ UNCHANGED <<validationErrors, appliedChanges, pending, issued>>
    /\ UNCHANGED <<vvars, mvars, cvars, inv, evars, fvars>>

\* the last pause is over: onDataChange(newData) and the fetch
autoFixLoopDone ==
    /\ autoFix.pc = "paused"
    /\ autoFix.i = Len(autoFix.list)
    /\ uploadedData' = AutoFixData
    /\ Fetch("autofix", AutoFixData)
    /\ autoFix' = [autoFix EXCEPT !.pc = "fetching", !.shared = TRUE]
    /\ UNCHANGED <<validationErrors, appliedCorrections, appliedChanges, applications>>
    /\ UNCHANGED <<vvars, mvars, cvars, inv, evars, fvars>>

\* the rest of autoFixAll: the findings are replaced when the response is ok;
\* setAutoFixProgress(0)
autoFixRevalidated ==
    \E r \in pending :
        /\ r.origin = "autofix"
        /\ validationErrors' = IF ok(ResponseTo(r)) THEN ResponseTo(r).errors
                               ELSE validationErrors
        /\ pending' = pending \ {r}
        /\ autoFix' = [autoFix EXCEPT !.pc = "idle"]
        /\ UNCHANGED <<uploadedData, appliedCorrections, appliedChanges, issued, applications>>
        /\ UNCHANGED <<vvars, mvars, cvars, inv, evars, fvars>>

\* the rest of applyCorrection: the findings are replaced when the response
\* is ok, and kept otherwise
revalidated ==
    \E r \in pending :
        /\ r.origin = "revalidate"
        /\ validationErrors' = IF ok(ResponseTo(r)) THEN ResponseTo(r).errors
                               ELSE validationErrors
        /\ pending' = pending \ {r}
        /\ UNCHANGED <<uploadedData, appliedCorrections, appliedChanges, issued>>
        /\ UNCHANGED <<vvars, mvars, cvars, inv, evars, fvars, avars>>

UINext ==
    \/ processFiles
    \/ processFilesValidated
    \/ loadSampleData
    \/ applySuggestion
    \/ applyCorrection
    \/ autoFixAll
    \/ autoFixNextPass
    \/ autoFixLoopDone
    \/ autoFixRevalidated
    \/ revalidated

SpecUI == UIInit /\ [][UINext]_vars

(***************************************************************************)
(* The export panel.  exportData sets exporting, hands the ticked,         *)
(* non-empty collections to the browser as CSV files and clears exporting  *)
(* in its finally block; the button that starts it is disabled by          *)
(* !canExport || exporting.  The business rules and their file are not     *)
(* part of this model.                                                     *)
(***************************************************************************)
\* validationErrors.filter((e) => e.severity === "error").length
errorCount == Len(SelectSeq(validationErrors, LAMBDA e : e.severity = "error"))

\* validationErrors.filter((e) => e.severity === "warning").length
warningCount == Len(SelectSeq(validationErrors, LAMBDA e : e.severity = "warning"))

canExport == errorCount = 0

\* the CSV files one export downloads
ExportedFiles ==
    {f \in {"clients-cleaned.csv", "workers-cleaned.csv", "tasks-cleaned.csv"} :
        \/ f = "clients-cleaned.csv" /\ exportOptions.includeClients
                                     /\ Len(uploadedData.clients) > 0
        \/ f = "workers-cleaned.csv" /\ exportOptions.includeWorkers
                                     /\ Len(uploadedData.workers) > 0
        \/ f = "tasks-cleaned.csv" /\ exportOptions.includeTasks
                                   /\ Len(uploadedData.tasks) > 0}

\* a tick box of the panel: setExportOptions({...exportOptions, option: !!checked})
onCheckedChange ==
    /\ hasData
    /\ \E option \in DOMAIN exportOptions : \E checked \in BOOLEAN :
        exportOptions' = [exportOptions EXCEPT ![option] = checked]
    /\ UNCHANGED <<exporting, downloaded>>
    /\ UNCHANGED <<vvars, mvars, cvars, inv, uvars, fvars, avars>>

\* a button that ignores exporting
exportDataWhileExporting ==
    /\ hasData
    /\ canExport
    /\ exporting' = TRUE
    /\ downloaded' = ExportedFiles
    /\ UNCHANGED exportOptions
    /\ UNCHANGED <<vvars, mvars, cvars, inv, uvars, fvars, avars>>

\* a click on the export button: exportData up to its finally block
exportData ==
    /\ hasData
    /\ ~(~canExport \/ exporting)
    /\ exporting' = TRUE
    /\ downloaded' = ExportedFiles
    /\ UNCHANGED exportOptions
    /\ UNCHANGED <<vvars, mvars, cvars, inv, uvars, fvars, avars>>

\* the finally block of exportData
exportDataFinally ==
    /\ exporting
    /\ exporting' = FALSE
    /\ UNCHANGED <<exportOptions, downloaded>>
    /\ UNCHANGED <<vvars, mvars, cvars, inv, uvars, fvars, avars>>

ExportNext ==
    \/ processFiles
    \/ processFilesValidated
    \/ applyCorrection
    \/ revalidated
    \/ onCheckedChange
    \/ exportData
    \/ exportDataFinally

SpecExport == UIInit /\ [][ExportNext]_vars

(***************************************************************************)
(* The upload flow.  processFiles parses the files, sends the rows of each *)
(* non-empty collection to /api/ai/parse-data (processWithAI), validates   *)
(* the result and hands data and findings to the page.  upload holds its   *)
(* locals: data is the object being built, parsed the rows as parseFile    *)
(* returned them, answers what the parse-data calls were answered.         *)
(***************************************************************************)
\* the rows parseFile returns for the files chosen
ParsedFiles ==
    { Snapshot(<< WithColumn(GoodClient("C1"), "PriorityLevel", Str("3")) >>,
               <<>>,
               << WithColumn(GoodTask("T1"), "Duration", Str("x")) >>),
      Snapshot(<< WithColumn(GoodClient("C1"), "PriorityLevel", Num(9)) >>,
               << WithColumn(GoodWorker("W1"), "AttributesJSON", Str("{bad")) >>,
               <<>>) }

\* how a call of /api/ai/parse-data ends: processed rows, the 500 of the
\* route's catch block (generateStructuredOutput threw), or fetch rejecting
ParseDataAnswers == {"ok", "500", "network error"}

\* the columns the route converts with Number(value) || 0
IsNumberColumn(col) == col \in {"PriorityLevel", "Duration", "MaxLoadPerPhase", "MaxConcurrent"}

\* Number(value) || 0
NumberOrZero(v) == IF Truthy(ToNumber(v)) THEN ToNumber(v) ELSE Num(0)

\* a row as the route rebuilds it when the mapping maps each column to itself
\* and the array cells are arrays already
ProcessedRow(row) ==
    [col \in DOMAIN row |->
        IF IsNumberColumn(col) THEN NumberOrZero(row[col])
        ELSE IF col = "AttributesJSON"
             THEN (IF TypeOf(row[col]) = "string" /\ ~JSONParseThrows(row[col].s)
                   THEN row[col] ELSE Str("{}"))
        ELSE row[col]]

\* processWithAI returning what the failed call left it with: nothing
processWithAIResultNoFallback(data, answer) ==
    IF answer = "ok" THEN [i \in 1 .. Len(data) |-> ProcessedRow(data[i])] ELSE <<>>

\* what processWithAI returns: result.processedData, or the rows it was given
\* when the response is not ok or fetch rejected
processWithAIResult(data, answer) ==
    IF answer = "ok" THEN [i \in 1 .. Len(data) |-> ProcessedRow(data[i])] ELSE data

\* the collections not yet processed, in the order of Object.entries(data)
EntityOrder == <<"clients", "workers", "tasks">>
NextEntity == EntityOrder[Len(upload.answers) + 1]

\* processFiles up to the end of the parse loop
parseFiles ==
    /\ upload.pc = "idle"
    /\ issued < MaxRequests
    /\ \E parsed \in ParsedFiles :
         upload' = [pc |-> "ai", data |-> parsed, parsed |-> parsed, answers |-> <<>>]
    /\ UNCHANGED uvars
    /\ UNCHANGED <<vvars, mvars, cvars, inv, evars, avars>>

\* one pass of the AI-processing loop: an empty collection is passed over
processWithAI ==
    /\ upload.pc = "ai"
    /\ Len(upload.answers) < Len(EntityOrder)
    /\ LET entityData == upload.data[NextEntity]
       IN IF Len(entityData) > 0
          THEN \E answer \in ParseDataAnswers :
                  upload' = [upload EXCEPT
                                !.data[NextEntity] = processWithAIResult(entityData, answer),
                                !.answers = Append(@, answer)]
          ELSE upload' = [upload EXCEPT !.answers = Append(@, "none")]
    /\ UNCHANGED uvars
    /\ UNCHANGED <<vvars, mvars, cvars, inv, evars, avars>>

\* validateData(data) up to its fetch
validateData ==
    /\ upload.pc = "ai"
    /\ Len(upload.answers) = Len(EntityOrder)
    /\ Fetch("upload", upload.data)
    /\ upload' = [upload EXCEPT !.pc = "validate"]
    /\ UNCHANGED <<uploadedData, validationErrors, appliedCorrections, appliedChanges>>
    /\ UNCHANGED <<vvars, mvars, cvars, inv, evars, avars>>

UploadNext ==
    \/ parseFiles
    \/ processWithAI
    \/ validateData
    \/ processFilesValidated

SpecUpload == UIInit /\ [][UploadNext]_vars

(***************************************************************************)
(* Properties of the validation pass                                       *)
(***************************************************************************)
Entities == {"clients", "workers", "tasks"}
CollectionOf(e) == IF e = "clients" THEN clients ELSE IF e = "workers" THEN workers ELSE tasks
IdColumnOf(e) == IF e = "clients" THEN "ClientID" ELSE IF e = "workers" THEN "WorkerID" ELSE "TaskID"

\* an identifier is a non-empty string (data model of the records)
IsIdentifier(v) == v.t = "string" /\ v.s # ""

\* positions in the response of the findings of a type for a row of an entity
FindingsAt(type, e, row) ==
    { k \in 1 .. Len(errors) :
        errors[k].type = type /\ errors[k].entityType = e /\ errors[k].rowIndex = row }
FindingsOf(type, e) ==
    { k \in 1 .. Len(errors) : errors[k].type = type /\ errors[k].entityType = e }

\* row i of data repeats the identifier of an earlier row
LaterOccurrence(data, col, i) ==
    /\ IsIdentifier(Get(data[i], col))
    /\ \E j \in 1 .. i - 1 : Get(data[j], col) = Get(data[i], col)

\* C1: in each collection, a row gets exactly one duplicateId error when it
\* repeats the identifier of an earlier row and none otherwise, so that an
\* identifier occurring k times yields k-1 errors, at its later occurrences
C1_DuplicateIds ==
    vpc = "responded" =>
        \A e \in Entities :
            LET data == CollectionOf(e)
                col == IdColumnOf(e)
                Occurrences(v) == { i \in 1 .. Len(data) : Get(data[i], col) = v }
            IN /\ \A i \in 1 .. Len(data) :
                      Cardinality(FindingsAt("duplicateId", e, i - 1))
                          = IF LaterOccurrence(data, col, i) THEN 1 ELSE 0
               /\ \A k \in FindingsOf("duplicateId", e) :
                      /\ errors[k].rowIndex \in 0 .. Len(data) - 1
                      /\ errors[k].columnName = col
                      /\ errors[k].severity = "error"
               /\ \A v \in { Get(data[i], col) : i \in 1 .. Len(data) } :
                      IsIdentifier(v) =>
                          Cardinality({ k \in FindingsOf("duplicateId", e) :
                                          errors[k].rowIndex + 1 \in Occurrences(v) })
                              = Cardinality(Occurrences(v)) - 1

\* an identifier occurs three times in one collection: two errors
C1_Witness ==
    /\ vpc = "responded"
    /\ Len(workers) = 3
    /\ Get(workers[1], "WorkerID") = Str("A")
    /\ Get(workers[2], "WorkerID") = Str("A")
    /\ Get(workers[3], "WorkerID") = Str("A")
    /\ Cardinality(FindingsOf("duplicateId", "workers")) = 2

\* the ids of the task rows / a requested id that no task row carries
UnknownRequested(client) ==
    LET requested == Get(client, "RequestedTaskIDs")
    IN /\ IsArray(requested)
       /\ \E k \in 1 .. Len(requested.a) :
              \A j \in 1 .. Len(tasks) : Get(tasks[j], "TaskID") # requested.a[k]
AllRequestedExist(client) ==
    LET requested == Get(client, "RequestedTaskIDs")
    IN /\ IsArray(requested)
       /\ \A k \in 1 .. Len(requested.a) :
              \E j \in 1 .. Len(tasks) : Get(tasks[j], "TaskID") = requested.a[k]

\* the findings about unknown references for client row i (1-based)
ReferenceFindings(i) == FindingsAt("unknownReferences", "clients", i - 1)

\* what the claim asks of client row i
ReferenceRule(i) ==
    /\ UnknownRequested(clients[i]) =>
           /\ ReferenceFindings(i) # {}
           /\ \A k \in ReferenceFindings(i) :
                  errors[k].severity = "error" /\ errors[k].columnName = "RequestedTaskIDs"
    /\ AllRequestedExist(clients[i]) => ReferenceFindings(i) = {}

\* C2, as claimed: whatever the task collection contains, a client row that
\* requests an id no task carries gets an unknownReferences error on
\* RequestedTaskIDs, and a client whose requested ids all exist gets none
C2_UnknownReferencesAnyTasks ==
    vpc = "responded" => \A i \in 1 .. Len(clients) : ReferenceRule(i)

\* C2, amended: the same when the task collection is not empty; when it is
\* empty the rule does not fire and no unknownReferences finding is reported
C2_UnknownReferences ==
    vpc = "responded" =>
        IF Len(tasks) = 0
        THEN \A k \in 1 .. Len(errors) : errors[k].type # "unknownReferences"
        ELSE \A i \in 1 .. Len(clients) :
                 /\ ReferenceRule(i)
                 /\ Cardinality(ReferenceFindings(i)) <= 1

\* a client requests T1 and T9, the tasks are T2 and T1: one error for the row
C2_Witness ==
    /\ vpc = "responded"
    /\ Len(clients) = 1 /\ Len(tasks) = 2
    /\ Get(clients[1], "RequestedTaskIDs") = Arr(<<Str("T1"), Str("T9")>>)
    /\ Get(tasks[1], "TaskID") = Str("T2") /\ Get(tasks[2], "TaskID") = Str("T1")
    /\ Cardinality(ReferenceFindings(1)) = 1

\* data with its null rows replaced by empty objects
WithoutNullRows(data) == [i \in 1 .. Len(data) |-> IF data[i] = NullRow THEN <<>> ELSE data[i]]
NullRowAt(e, row) == row + 1 \in 1 .. Len(CollectionOf(e)) /\ CollectionOf(e)[row + 1] = NullRow

\* C6: validate never fails as a whole: it answers with its list, a null row
\* gets a finding of its own, and the findings about the other rows are the
\* ones the pass reports when the null rows are not there to disturb it
C6_NeverFailsAsAWhole ==
    vpc = "responded" =>
        /\ status = 200
        /\ \A e \in Entities : \A i \in 1 .. Len(CollectionOf(e)) :
               CollectionOf(e)[i] = NullRow =>
                   \E k \in 1 .. Len(errors) :
                       errors[k].entityType = e /\ errors[k].rowIndex = i - 1
        /\ LET others == ValidateResponse(WithoutNullRows(clients), WithoutNullRows(workers),
                                          WithoutNullRows(tasks)).errors
           IN \A k \in 1 .. Len(others) :
                  ~NullRowAt(others[k].entityType, others[k].rowIndex) =>
                      \E m \in 1 .. Len(errors) : errors[m] = others[k]

\* C10: when the three collections are empty the response is the empty list
C10_EmptyCollections ==
    (vpc = "responded" /\ Len(clients) = 0 /\ Len(workers) = 0 /\ Len(tasks) = 0)
        => (errors = <<>> /\ status = 200)

\* the handler has answered a request with three empty collections
C10_Witness ==
    /\ vpc = "responded" /\ status = 200
    /\ clients = <<>> /\ workers = <<>> /\ tasks = <<>>

(***************************************************************************)
(* Properties of generateStructuredOutput                                  *)
(***************************************************************************)
Terminal == mpc \in {"returned", "thrown"}

\* every provider call so far had an outcome of the kind P
Every(P(_)) == \A i \in 1 .. Len(outcomes) : P(outcomes[i])

RateLimited(o) == o.kind = "RateLimit"
TransportFailure(o) == o.kind = "Transport"

\* a text JSON.parse rejects, cleaned or not
Unparseable(o) ==
    /\ o.kind = "text"
    /\ JSONParse(o.text) = "SyntaxError"
    /\ JSONParse(Clean(o.text)) = "SyntaxError"

\* a text that is JSON of the schema's shape as it stands
PlainValid(o) == o.kind = "text" /\ JSONParse(o.text) = "good"

\* a text that parses and passes the schema on the path of provider p
ParsesAndValid(p, o) ==
    /\ o.kind = "text"
    /\ JSONParse(IF p = "ollama" THEN Clean(o.text) ELSE o.text) = "good"

\* the errors a failed parse raises
ParseErrorKinds == {"SyntaxError", "ParseFailed"}

\* with every response unparseable: `budget` calls, then a terminal failure
\* carrying the parse error of the last call
ExhaustsOnParseErrors(budget) ==
    (calls >= 1 /\ Every(Unparseable)) =>
        /\ calls <= budget
        /\ Terminal <=> calls = budget
        /\ Terminal =>
               /\ mpc = "thrown"
               /\ result = <<>>
               /\ failure.at = calls
               /\ failure.kind \in ParseErrorKinds

C4_RateLimitedTwiceThenSuccess ==
    /\ (provider \in {"ollama", "gemini"} /\ Len(outcomes) \in {1, 2} /\ Every(RateLimited))
           => ~Terminal
    /\ (Len(outcomes) = 3 /\ RateLimited(outcomes[1]) /\ RateLimited(outcomes[2])
            /\ PlainValid(outcomes[3]))
           => /\ mpc = "returned"
              /\ result = << ValueOf(outcomes[3], 3) >>
              /\ calls = 3
              /\ retryCount <= 5
              /\ failure = NoError

\* gemini returned the value of its third call after two rate-limit failures
C4_Witness ==
    /\ provider = "gemini" /\ mpc = "returned"
    /\ Len(outcomes) = 3 /\ RateLimited(outcomes[1]) /\ RateLimited(outcomes[2])
    /\ PlainValid(outcomes[3])
    /\ retryCount = 2 /\ waits = 2

\* C5: the first response that parses and passes the schema ends the
\* invocation: it is the last call made, its value is the one value returned
C5_ReturnsFirstSuccess ==
    /\ Len(result) <= 1
    /\ \A i \in 1 .. Len(outcomes) :
           ParsesAndValid(provider, outcomes[i]) =>
               /\ i = Len(outcomes)
               /\ calls = i
               /\ mpc = "returned"
               /\ result = << ValueOf(outcomes[i], i) >>
    /\ mpc = "returned" =>
           /\ Len(result) = 1
           /\ calls = Len(outcomes)
           /\ ParsesAndValid(provider, outcomes[calls])
           /\ \A i \in 1 .. calls - 1 : ~ParsesAndValid(provider, outcomes[i])

\* ollama returned on its second attempt, a fenced response after a failure
C5_Witness ==
    /\ provider = "ollama" /\ mpc = "returned"
    /\ calls = 2
    /\ Unparseable(outcomes[1])
    /\ outcomes[2].text = <<"FENCEJSON", "NL", "{", "good", "}", "NL", "FENCE">>
    /\ Len(result) = 1

\* the call with the transport failure is the last one and its error is thrown
SurfacedAt(i) ==
    /\ calls = i
    /\ mpc = "thrown"
    /\ failure = ErrorOf("Transport", i)

ExhaustsOnRateLimit(budget) ==
    (calls >= 1 /\ Every(RateLimited)) =>
        /\ calls <= budget
        /\ calls < budget => ~Terminal
        /\ Terminal =>
               /\ mpc = "thrown"
               /\ failure = ErrorOf("RateLimit", calls)

WithinJitter(nominal) ==
    /\ 100 * delay >= 80 * nominal
    /\ 100 * delay <= 120 * nominal
    /\ delay <= 60000

\* C9, as claimed: the nominal backoff delay is 1 second before the first
\* retry and doubles with each retry
C9_BackoffFromOneSecond ==
    (provider = "gemini" /\ retryCount >= 1) => WithinJitter(1000 * 2 ^ (retryCount - 1))

\* C9, amended: the nominal delay is 2 seconds before the first retry (the
\* 1-second base times 2 to the retry count, which is 1 by then) and doubles
\* with each retry; the actual delay is within 20% of it and below 60 seconds
C9_Backoff ==
    (provider = "gemini" /\ retryCount >= 1) => WithinJitter(1000 * 2 ^ retryCount)

\* the third backoff sleep, at the top of its jitter range
C9_Witness ==
    /\ provider = "gemini" /\ mpc = "sleep"
    /\ retryCount = 3
    /\ delay = 9600

(***************************************************************************)
(* Properties of the validation pass: capacity, coverage, the list as a    *)
(* whole                                                                   *)
(***************************************************************************)
\* worker row i (1-based) carries a slot array and a number as its maximum load
TypedCapacity(i) ==
    IsArray(Get(workers[i], "AvailableSlots")) /\ Get(workers[i], "MaxLoadPerPhase").t = "number"
SlotCount(i) == Len(Get(workers[i], "AvailableSlots").a)
CapacityFindings(i) == FindingsAt("overloadedWorker", "workers", i - 1)

\* C12: a worker row whose AvailableSlots array holds fewer entries than its
\* MaxLoadPerPhase number gets exactly one overloadedWorker finding, a warning
\* on column MaxLoadPerPhase; a worker with at least as many slots gets none
C12_OverloadedWorker ==
    vpc = "responded" =>
        /\ \A i \in 1 .. Len(workers) :
               TypedCapacity(i) =>
                   Cardinality(CapacityFindings(i))
                       = IF SlotCount(i) < Get(workers[i], "MaxLoadPerPhase").n THEN 1 ELSE 0
        /\ \A k \in 1 .. Len(errors) :
               errors[k].type = "overloadedWorker" =>
                   /\ errors[k].severity = "warning"
                   /\ errors[k].columnName = "MaxLoadPerPhase"
                   /\ errors[k].entityType = "workers"
                   /\ errors[k].rowIndex \in 0 .. Len(workers) - 1

\* slots [1, 2] against a maximum load of 4, next to a worker with 2 slots
\* and a maximum load of 2: one warning, for the first worker
C12_Witness ==
    /\ vpc = "responded" /\ status = 200
    /\ Len(workers) = 2
    /\ Get(workers[1], "AvailableSlots") = Arr(<<Num(1), Num(2)>>)
    /\ Get(workers[1], "MaxLoadPerPhase") = Num(4)
    /\ Get(workers[2], "AvailableSlots") = Arr(<<Num(1), Num(2)>>)
    /\ Get(workers[2], "MaxLoadPerPhase") = Num(2)
    /\ Cardinality(CapacityFindings(1)) = 1
    /\ CapacityFindings(2) = {}
    /\ \A k \in CapacityFindings(1) : errors[k].severity = "warning"

\* some worker row holds the skill in its Skills array
HeldBySomeWorker(skill) ==
    \E j \in 1 .. Len(workers) :
        LET skills == Get(workers[j], "Skills")
        IN IsArray(skills) /\ \E k \in 1 .. Len(skills.a) : skills.a[k] = skill

\* the task requires a skill no worker holds / only skills some worker holds
RequiresUncovered(task) ==
    LET required == Get(task, "RequiredSkills")
    IN IsArray(required) /\ \E k \in 1 .. Len(required.a) : ~HeldBySomeWorker(required.a[k])
AllRequiredCovered(task) ==
    LET required == Get(task, "RequiredSkills")
    IN IsArray(required) /\ \A k \in 1 .. Len(required.a) : HeldBySomeWorker(required.a[k])

CoverageFindings(i) == FindingsAt("uncoveredSkills", "tasks", i - 1)

\* what the claim asks of task row i
CoverageRule(i) ==
    /\ RequiresUncovered(tasks[i]) =>
           /\ CoverageFindings(i) # {}
           /\ \A k \in CoverageFindings(i) :
                  errors[k].severity = "warning" /\ errors[k].columnName = "RequiredSkills"
    /\ AllRequiredCovered(tasks[i]) => CoverageFindings(i) = {}

\* C13, as claimed: whatever the worker collection contains, a task row that
\* requires a skill no worker holds gets an uncoveredSkills warning on
\* RequiredSkills, and a task whose skills are all held gets none
C13_UncoveredSkillsAnyWorkers ==
    vpc = "responded" => \A i \in 1 .. Len(tasks) : CoverageRule(i)

\* C13, amended: the same when the worker collection is not empty, with one
\* finding per such task row; when there is no worker row the rule does not
\* fire and no uncoveredSkills finding is reported
C13_UncoveredSkills ==
    vpc = "responded" =>
        IF Len(workers) = 0
        THEN \A k \in 1 .. Len(errors) : errors[k].type # "uncoveredSkills"
        ELSE \A i \in 1 .. Len(tasks) :
                 /\ CoverageRule(i)
                 /\ Cardinality(CoverageFindings(i)) <= 1

\* the one worker holds s1; the first task requires s1 and s2, the second s1:
\* one warning, for the first task
C13_Witness ==
    /\ vpc = "responded" /\ status = 200
    /\ Len(workers) = 1 /\ Len(tasks) = 2
    /\ Get(workers[1], "Skills") = Arr(<<Str("s1")>>)
    /\ Get(tasks[1], "RequiredSkills") = Arr(<<Str("s1"), Str("s2")>>)
    /\ Get(tasks[2], "RequiredSkills") = Arr(<<Str("s1")>>)
    /\ Cardinality(CoverageFindings(1)) = 1
    /\ CoverageFindings(2) = {}

\* the kinds of finding, and the kinds that are warnings
FindingKinds ==
    { "missingColumns", "duplicateId", "malformedArray", "invalidArrayElements", "outOfRange",
      "belowMinimum", "invalidJSON", "unknownReferences", "overloadedWorker", "uncoveredSkills" }
WarningKinds == {"overloadedWorker", "uncoveredSkills"}

\* the kinds of the findings in the response
KindsReported == { errors[k].type : k \in 1 .. Len(errors) }

\* C14: every finding of a response is of one of the ten kinds; it is a
\* warning exactly when its kind is overloadedWorker or uncoveredSkills and
\* an error otherwise
C14_SeverityByKind ==
    \A k \in 1 .. Len(errors) :
        /\ errors[k].type \in FindingKinds
        /\ errors[k].severity \in {"error", "warning"}
        /\ errors[k].severity = "warning" <=> errors[k].type \in WarningKinds

\* a response carrying both kinds of warning next to errors of four kinds
C14_Witness ==
    /\ vpc = "responded" /\ status = 200
    /\ WarningKinds \subseteq KindsReported
    /\ Cardinality(KindsReported \ WarningKinds) >= 4
    /\ \E k \in 1 .. Len(errors) : errors[k].severity = "warning"
    /\ \E k \in 1 .. Len(errors) : errors[k].severity = "error"

\* the catalog rule (1 .. 8) that reports findings of a kind
RuleOf(type) ==
    CASE type = "missingColumns" -> 1
      [] type = "duplicateId" -> 2
      [] type \in {"malformedArray", "invalidArrayElements"} -> 3
      [] type \in {"outOfRange", "belowMinimum"} -> 4
      [] type = "invalidJSON" -> 5
      [] type = "unknownReferences" -> 6
      [] type = "overloadedWorker" -> 7
      [] type = "uncoveredSkills" -> 8

\* two findings of one rule call: one rule applied to one collection and column
SameCall(x, y) ==
    /\ RuleOf(x.type) = RuleOf(y.type)
    /\ x.entityType = y.entityType
    /\ x.columnName = y.columnName

\* C15, as claimed: from one finding to the next finding of the same catalog
\* rule, rowIndex never decreases
C15_RowsAscendWithinRule ==
    \A k \in 1 .. Len(errors) - 1 :
        RuleOf(errors[k].type) = RuleOf(errors[k + 1].type) =>
            errors[k].rowIndex <= errors[k + 1].rowIndex

\* C15, amended: among the findings of one rule call, a finding reported
\* later is about a later row
C15_RowsAscendWithinCall ==
    \A k \in 1 .. Len(errors) : \A m \in k + 1 .. Len(errors) :
        SameCall(errors[k], errors[m]) => errors[k].rowIndex < errors[m].rowIndex

\* one rule call reports three rows, in rising order
C15_Witness ==
    /\ vpc = "responded" /\ status = 200
    /\ \E k \in 1 .. Len(errors) - 2 :
           /\ SameCall(errors[k], errors[k + 1]) /\ SameCall(errors[k + 1], errors[k + 2])
           /\ errors[k].rowIndex = 0 /\ errors[k + 1].rowIndex = 1 /\ errors[k + 2].rowIndex = 2

\* C16: the findings are grouped by rule in catalog order: no finding of a
\* later rule precedes a finding of an earlier rule
C16_GroupedInCatalogOrder ==
    \A k \in 1 .. Len(errors) : \A m \in k + 1 .. Len(errors) :
        RuleOf(errors[k].type) <= RuleOf(errors[m].type)

\* a response with findings of seven of the eight rules
C16_Witness ==
    /\ vpc = "responded" /\ status = 200
    /\ Cardinality({ RuleOf(errors[k].type) : k \in 1 .. Len(errors) }) >= 7

BraceSpan(q) == SubSeq(q, IndexOf(q, "{"), LastIndexOf(q, "}"))

IsFence(tok) == tok \in {"FENCE", "FENCEJSON"}

\* a fence marker lies between the first opening and the last closing brace
FenceInSpan(q) == \E i \in 1 .. Len(BraceSpan(q)) : IsFence(BraceSpan(q)[i])

\* the lexemes of a text other than fence markers and line breaks
Content(q) == SelectSeq(q, LAMBDA tok : ~IsFence(tok) /\ ~IsSpace(tok))

\* C17, as claimed: the string handed to the parser is exactly the text from
\* the first opening brace of the response to its last closing brace
C17_CleansToBraceSpan ==
    mpc = "parse" => jsonStr = BraceSpan(generated)

\* C17, amended: it is that text whenever no fence marker lies inside it; a
\* fence marker inside it (the text before the fence holds a brace, or the
\* text after it does) is removed where it stands at a line start, three
\* backticks also at a line end, and nothing but fence markers and line
\* breaks is removed
C17_Cleans ==
    mpc = "parse" =>
        /\ ~FenceInSpan(generated) => jsonStr = BraceSpan(generated)
        /\ Content(jsonStr) = Content(BraceSpan(generated))
        /\ \A i \in 1 .. Len(jsonStr) :
               /\ IsFence(jsonStr[i]) => ~AtLineStart(jsonStr, i)
               /\ jsonStr[i] = "FENCE" => ~AtLineEnd(jsonStr, i)

\* text, a json fence around the object, text: the object is what is parsed
C17_Witness ==
    /\ mpc = "parse"
    /\ generated = <<"text", "NL", "FENCEJSON", "NL", "{", "good", "}", "NL", "FENCE", "NL", "text">>
    /\ jsonStr = <<"{", "good", "}">>
    /\ jsonStr = BraceSpan(generated)

(***************************************************************************)
(* Properties of generateStructuredOutput: calls that never complete       *)
(***************************************************************************)
\* C19: a provider call that never completes does not hang the invocation:
\* as long as the invocation has neither returned nor thrown it has a step
\* to take (the pending call is aborted and counted as a failed attempt)
C19_NeverHangs == Terminal \/ ENABLED MediatorHangNext

(***************************************************************************)
(* Properties of concurrent invocations                                    *)
(***************************************************************************)
Ended(l) == l.pc \in {"returned", "thrown"}

RECURSIVE RunAlone(_)
\* the invocation run from l on with no other invocation around
RunAlone(l) ==
    IF Ended(l) THEN l
    ELSE IF l.pc = "call" THEN RunAlone(Sent(l))
    ELSE IF l.pc = "inflight"
         THEN RunAlone(Answered(l, ScriptAt(l.script, l.calls), MinJitterPercent))
    ELSE RunAlone(TimerFired(l))

\* how an invocation ended: calls made, value returned or error thrown
Outcome(l) == [pc |-> l.pc, calls |-> l.calls, result |-> l.result, failure |-> l.failure]

\* the steps invocation i can take from its own locals
OwnSteps(l) ==
    IF l.pc = "call" THEN {Sent(l)}
    ELSE IF l.pc = "inflight"
         THEN { Answered(l, ScriptAt(l.script, l.calls), j) : j \in ConcurrentJitter }
    ELSE IF l.pc \in {"wait", "sleep"} THEN {TimerFired(l)}
    ELSE {}

\* at most one call of an invocation is in flight, and an invocation that has
\* ended made the calls and reached the outcome of its run alone
IndependentOutcome(i) ==
    /\ inv[i].inflight \in {0, 1}
    /\ inv[i].inflight = 1 <=> inv[i].pc = "inflight"
    /\ inv[i].calls <= RunAlone(NewInvocation(inv[i].provider, inv[i].script)).calls
    /\ Ended(inv[i]) =>
           Outcome(inv[i]) = Outcome(RunAlone(NewInvocation(inv[i].provider, inv[i].script)))

\* a step is the step of one invocation: it leaves the locals of the others
\* as they are and takes its own to where they alone lead
OneInvocationSteps ==
    \E i \in Invocations :
        /\ \A j \in Invocations \ {i} : inv'[j] = inv[j]
        /\ inv'[i] \in OwnSteps(inv[i])

C20_HeldFindingsCurrent ==
    pending = {} =>
        validationErrors = ValidateResponse(uploadedData.clients, uploadedData.workers,
                                            uploadedData.tasks).errors


(***************************************************************************)
(* C21: the export action is enabled only while the held findings contain  *)
(* no finding of severity error; findings of severity warning alone never  *)
(* disable it; and it cannot be started again while an export is in        *)
(* progress.                                                               *)
(***************************************************************************)
ErrorFindings == {k \in 1 .. Len(validationErrors) : validationErrors[k].severity = "error"}
WarningFindings == {k \in 1 .. Len(validationErrors) : validationErrors[k].severity = "warning"}

C21_ExportGate ==
    /\ (ENABLED exportData) => ErrorFindings = {} /\ ~exporting
    /\ (hasData /\ ErrorFindings = {} /\ ~exporting) => ENABLED exportData

\* warnings are held, no error is, and an export is in progress
C21_Witness ==
    /\ WarningFindings # {}
    /\ ErrorFindings = {}
    /\ exporting
    /\ downloaded # {}


C23_WaitsOnlyBeforeRetry ==
    /\ mpc = "wait" => attempt < maxAttempts
    /\ mpc = "sleep" => retryCount < maxRetries
    /\ mpc \in {"wait", "sleep"} => ENABLED (MediatorNext /\ mpc' = "call")
    /\ mpc = "thrown" => failure.at = calls /\ failure.kind # "none"


(***************************************************************************)
(* C24: the three provider paths implement one mediator contract: two      *)
(* invocations given the same sequence of raw provider outcomes make the   *)
(* same number of provider calls and end alike (the same value returned,   *)
(* or a terminal failure both), whichever providers are selected, fenced   *)
(* JSON being cleaned before it is parsed.                                 *)
(***************************************************************************)
C24_ProvidersAgree ==
    \A i, j \in Invocations :
        (Ended(inv[i]) /\ Ended(inv[j]) /\ inv[i].script = inv[j].script) =>
            /\ inv[i].calls = inv[j].calls
            /\ inv[i].pc = inv[j].pc
            /\ [k \in DOMAIN inv[i].result |-> inv[i].result[k].text]
                   = [k \in DOMAIN inv[j].result |-> inv[j].result[k].text]


(***************************************************************************)
(* C25: range and minimum findings.                                        *)
(***************************************************************************)
\* positions of the findings of a type for a row and a column of an entity
FindingsAtField(type, e, row, col) ==
    { k \in FindingsAt(type, e, row) : errors[k].columnName = col }

\* the fields validateMinValue is called for
MinFields == { <<"tasks", "Duration">>, <<"tasks", "MaxConcurrent">>,
               <<"workers", "MaxLoadPerPhase">> }

\* the row carries the field
Provided(v) == v # Undefined

\* the value is a number of the range
NumberWithin(v, min, max) == v.t = "number" /\ v.n >= min /\ v.n <= max
NumberAtLeast(v, min) == v.t = "number" /\ v.n >= min

\* the value is neither undefined nor null
HasValue(v) == v # Undefined /\ v # Null

\* Number(value) is a number of the range
ConvertsWithin(v, min, max) ==
    ~IsNaN(ToNumber(v)) /\ ToNumber(v).n >= min /\ ToNumber(v).n <= max
ConvertsAtLeast(v, min) == ~IsNaN(ToNumber(v)) /\ ToNumber(v).n >= min

\* C25, as claimed: a client row gets an outOfRange error exactly when its
\* PriorityLevel is provided and is not a number within [1,5]; a row gets a
\* belowMinimum error for Duration, MaxConcurrent or MaxLoadPerPhase exactly
\* when the field is provided and is not a number of at least 1; at most one
\* such finding per row and field
C25_RangeOfTypedNumbers ==
    vpc = "responded" =>
        /\ \A i \in 1 .. Len(clients) :
             LET v == Get(clients[i], "PriorityLevel")
             IN Cardinality(FindingsAtField("outOfRange", "clients", i - 1, "PriorityLevel"))
                    = IF Provided(v) /\ ~NumberWithin(v, 1, 5) THEN 1 ELSE 0
        /\ \A f \in MinFields : \A i \in 1 .. Len(CollectionOf(f[1])) :
             LET v == Get(CollectionOf(f[1])[i], f[2])
             IN Cardinality(FindingsAtField("belowMinimum", f[1], i - 1, f[2]))
                    = IF Provided(v) /\ ~NumberAtLeast(v, 1) THEN 1 ELSE 0

\* C25, amended: the finding is reported exactly when the value is neither
\* absent nor null and Number(value) is NaN or outside the range (a numeral
\* text counts as its number, the empty text as 0); an absent or null field
\* gets none; at most one such finding per row and field
C25_RangeOfConvertedValues ==
    vpc = "responded" =>
        /\ \A i \in 1 .. Len(clients) :
             LET v == Get(clients[i], "PriorityLevel")
             IN Cardinality(FindingsAtField("outOfRange", "clients", i - 1, "PriorityLevel"))
                    = IF HasValue(v) /\ ~ConvertsWithin(v, 1, 5) THEN 1 ELSE 0
        /\ \A f \in MinFields : \A i \in 1 .. Len(CollectionOf(f[1])) :
             LET v == Get(CollectionOf(f[1])[i], f[2])
             IN Cardinality(FindingsAtField("belowMinimum", f[1], i - 1, f[2]))
                    = IF HasValue(v) /\ ~ConvertsAtLeast(v, 1) THEN 1 ELSE 0
        /\ Len(SelectSeq(errors, LAMBDA e : e.type = "outOfRange")) <= Len(clients)

\* a numeral text in range passes, a number out of range and a text that is
\* no numeral are reported, a null and an empty text meet the minimum rule
C25_Witness ==
    /\ vpc = "responded"
    /\ \E i \in 1 .. Len(clients) :
          /\ Get(clients[i], "PriorityLevel") = Str("3")
          /\ FindingsAt("outOfRange", "clients", i - 1) = {}
    /\ \E i \in 1 .. Len(clients) :
          /\ Get(clients[i], "PriorityLevel") \in {Num(6), Str("x")}
          /\ FindingsAt("outOfRange", "clients", i - 1) # {}
    /\ \E i \in 1 .. Len(tasks) :
          \/ Get(tasks[i], "Duration") = Null /\ FindingsAt("belowMinimum", "tasks", i - 1) = {}
          \/ Get(tasks[i], "MaxConcurrent") = Str("")
               /\ FindingsAt("belowMinimum", "tasks", i - 1) # {}


(***************************************************************************)
(* C26: for each array-typed field (workers.AvailableSlots, workers.Skills,*)
(* tasks.RequiredSkills, tasks.PreferredPhases) and each row that has a    *)
(* value for it, validate reports malformedArray when the value is not a   *)
(* sequence, invalidArrayElements when it is a sequence holding an element *)
(* that is not of the declared type (a numeric element is converted to a   *)
(* number and rejected only when the result is NaN; a string element is    *)
(* rejected when it is not a string), and nothing otherwise, with at most  *)
(* one finding per row and field.                                          *)
(***************************************************************************)
ArrayFields == { <<"workers", "AvailableSlots", "number">>, <<"workers", "Skills", "string">>,
                 <<"tasks", "RequiredSkills", "string">>, <<"tasks", "PreferredPhases", "number">> }

\* the element is of the declared type, a numeric element after conversion
ElementOfType(item, type) ==
    IF type = "number" THEN ~IsNaN(ToNumber(item)) ELSE item.t = "string"

\* the element is of the declared type as it stands
ElementTyped(item, type) == item.t = type

\* C26, as claimed
C26_ArrayFieldsConverted ==
    vpc = "responded" =>
        \A f \in ArrayFields : \A i \in 1 .. Len(CollectionOf(f[1])) :
            LET v == Get(CollectionOf(f[1])[i], f[2])
                malformed == FindingsAtField("malformedArray", f[1], i - 1, f[2])
                invalid == FindingsAtField("invalidArrayElements", f[1], i - 1, f[2])
            IN /\ Cardinality(malformed) = IF HasValue(v) /\ ~IsArray(v) THEN 1 ELSE 0
               /\ Cardinality(invalid)
                      = IF IsArray(v) /\ \E k \in 1 .. Len(v.a) : ~ElementOfType(v.a[k], f[3])
                        THEN 1 ELSE 0

\* C26, amended: a value that is neither absent nor null is reported as
\* malformedArray when it is not an array; an array is reported as
\* invalidArrayElements when it holds an element that is not of the declared
\* type as it stands (for a numeric field any element that is not a number,
\* a numeral text included; for a string field any element that is not a
\* string); nothing otherwise; at most one finding per row and field
C26_ArrayFields ==
    vpc = "responded" =>
        \A f \in ArrayFields : \A i \in 1 .. Len(CollectionOf(f[1])) :
            LET v == Get(CollectionOf(f[1])[i], f[2])
                malformed == FindingsAtField("malformedArray", f[1], i - 1, f[2])
                invalid == FindingsAtField("invalidArrayElements", f[1], i - 1, f[2])
            IN /\ Cardinality(malformed) = IF HasValue(v) /\ ~IsArray(v) THEN 1 ELSE 0
               /\ Cardinality(invalid)
                      = IF IsArray(v) /\ \E k \in 1 .. Len(v.a) : ~ElementTyped(v.a[k], f[3])
                        THEN 1 ELSE 0

\* a numeral text among numbers is reported, a text in place of an array is
\* reported as malformed, and a well-formed array gets nothing
C26_Witness ==
    /\ vpc = "responded"
    /\ \E i \in 1 .. Len(workers) :
          /\ Get(workers[i], "AvailableSlots") = Arr(<<Str("1"), Num(2)>>)
          /\ FindingsAtField("invalidArrayElements", "workers", i - 1, "AvailableSlots") # {}
    /\ \E i \in 1 .. Len(tasks) :
          /\ Get(tasks[i], "RequiredSkills") = Str("s1")
          /\ FindingsAtField("malformedArray", "tasks", i - 1, "RequiredSkills") # {}
    /\ \E i \in 1 .. Len(tasks) :
          /\ Get(tasks[i], "PreferredPhases") = Arr(<<Num(1), Num(2)>>)
          /\ FindingsAt("malformedArray", "tasks", i - 1) = {}
          /\ FindingsAt("invalidArrayElements", "tasks", i - 1) = {}


(***************************************************************************)
(* C27: missing required columns, one aggregate error per entity.          *)
(***************************************************************************)
RequiredOf(e) ==
    IF e = "clients" THEN ClientRequired ELSE IF e = "workers" THEN WorkerRequired
    ELSE TaskRequired

\* the required columns of e that some row does not carry
AbsentSomewhere(e) ==
    SelectSeq(RequiredOf(e), LAMBDA col : \E i \in 1 .. Len(CollectionOf(e)) :
                                              col \notin DOMAIN CollectionOf(e)[i])

\* e gets exactly one missingColumns error, and it names the columns
OneMissingColumnsError(e, columns) ==
    /\ Cardinality(FindingsOf("missingColumns", e)) = 1
    /\ \A k \in FindingsOf("missingColumns", e) :
          /\ errors[k].severity = "error"
          /\ errors[k].message = "Missing required columns: " \o JoinStrings(columns, ", ")

\* C27: every non-empty collection in which some row lacks a
\* required column gets exactly one missingColumns error naming every absent
\* required column; a collection whose rows all carry every required column
\* gets none
C27_MissingInSomeRow ==
    vpc = "responded" =>
        \A e \in {"clients", "workers", "tasks"} :
            IF Len(CollectionOf(e)) > 0 /\ AbsentSomewhere(e) # <<>>
            THEN OneMissingColumnsError(e, AbsentSomewhere(e))
            ELSE FindingsOf("missingColumns", e) = {}


(***************************************************************************)
(* C28: a failed AI call never loses the uploaded data or stops the upload *)
(* flow: when the parse-data call for an entity fails (HTTP 500 or a       *)
(* network error), the flow goes on with that entity's rows as parsed,     *)
(* still runs validation, and still delivers the data and the findings to  *)
(* the page.                                                               *)
(***************************************************************************)
\* the entities whose parse-data call failed
FailedEntities ==
    { EntityOrder[k] : k \in { j \in 1 .. Len(upload.answers) :
                                  upload.answers[j] \in {"500", "network error"} } }

\* while the flow runs, the rows of every failed entity are the parsed ones,
\* and the flow has a next step
UploadGoesOn ==
    upload.pc # "idle" =>
        /\ \A e \in FailedEntities : upload.data[e] = upload.parsed[e]
        /\ ENABLED UploadNext
        /\ upload.pc = "validate" => \E r \in pending : r.origin = "upload" /\ r.body = upload.data

\* the step that ends the flow hands over the data and their findings
UploadDelivers ==
    (upload.pc = "validate" /\ upload'.pc = "idle") =>
        /\ uploadedData' = upload.data
        /\ \A e \in FailedEntities : uploadedData'[e] = upload.parsed[e]
        /\ LET r == ValidateResponse(upload.data.clients, upload.data.workers, upload.data.tasks)
           IN validationErrors' = IF r.status = 200 THEN r.errors ELSE <<>>

C28_UploadSurvivesAIFailure == []UploadGoesOn /\ [][UploadDelivers]_vars

\* a flow in which a parse-data call answered 500 and another met a network
\* error has delivered the parsed rows and their findings
C28_Witness ==
    /\ upload.pc = "idle"
    /\ "500" \in {upload.answers[k] : k \in 1 .. Len(upload.answers)}
    /\ "network error" \in {upload.answers[k] : k \in 1 .. Len(upload.answers)}
    /\ uploadedData = upload.parsed
    /\ uploadedData.clients # <<>>
    /\ validationErrors # <<>>


(***************************************************************************)
(* C29: each AI correction is applied to the records at most once and its  *)
(* id is recorded at most once in the applied-corrections list, under      *)
(* every interleaving of an Auto-fix all run (which selects the            *)
(* auto-applicable, confidence > 0.8, not yet applied corrections at its   *)
(* start and pauses between applying them) with Apply Fix clicks on single *)
(* corrections.                                                            *)
(***************************************************************************)
Occurrences(q, x) == Cardinality({k \in 1 .. Len(q) : q[k] = x})

C29_AppliedAtMostOnce ==
    \A k \in 1 .. Len(corrections) :
        /\ Occurrences(applications, corrections[k].id) <= 1
        /\ Occurrences(appliedCorrections, corrections[k].id) <= 1


(***************************************************************************)
(* C30: in every list validate returns, the ids of the findings are        *)
(* pairwise distinct, so that an id identifies exactly one finding.        *)
(***************************************************************************)
C30_DistinctIds ==
    vpc = "responded" =>
        \A i, j \in 1 .. Len(errors) : errors[i].id = errors[j].id => i = j

\* a response with two findings of one type on different rows and two
\* findings of different types for one row
C30_Witness ==
    /\ vpc = "responded"
    /\ Len(errors) >= 5
    /\ \E i, j \in 1 .. Len(errors) :
          errors[i].type = errors[j].type /\ errors[i].rowIndex # errors[j].rowIndex
    /\ \E i, j \in 1 .. Len(errors) :
          /\ errors[i].type # errors[j].type
          /\ errors[i].entityType = errors[j].entityType
          /\ errors[i].rowIndex = errors[j].rowIndex

====
